---- MODULE Spec2Model ----
(***************************************************************************)
(* Track matching engine of mako-sync (src/services/trackMatchingEngine.ts) *)
(* Strings are sequences of one-character strings.  A regular expression   *)
(* of the source is an operator that scans such a sequence the way the     *)
(* JavaScript engine does (leftmost match, greedy quantifiers).            *)
(***************************************************************************)
EXTENDS Integers, Sequences, FiniteSets, TLC

(***************************************************************************)
(* Characters                                                              *)
(***************************************************************************)
LowerSeq ==
  << "a","b","c","d","e","f","g","h","i","j","k","l","m",
     "n","o","p","q","r","s","t","u","v","w","x","y","z" >>

UpperSeq ==
  << "A","B","C","D","E","F","G","H","I","J","K","L","M",
     "N","O","P","Q","R","S","T","U","V","W","X","Y","Z" >>

Digits == { "0","1","2","3","4","5","6","7","8","9" }

Range(f) == { f[i] : i \in DOMAIN f }

\* JavaScript null (string | null fields).  Not a string of characters.
Null == << "null" >>

\* An uncaught TypeError (a method called on null).
TypeError == << "TypeError" >>

\* Truthiness of a string | null value: null and '' are falsy.
Falsy(s) == s = Null \/ s = << >>

\* \w of a JavaScript regular expression without the u flag: [A-Za-z0-9_]
IsWord(c) == c \in Range(LowerSeq) \cup Range(UpperSeq) \cup Digits \cup { "_" }

\* \s
IsSpace(c) == c \in { " ", "\n" }

\* A character that . does not match
IsLineTerminator(c) == c = "\n"

\* \d
IsDigit(c) == c \in Digits

\* String.prototype.toLowerCase on one character
LowerChar(c) ==
  IF c \in Range(UpperSeq)
    THEN LowerSeq[CHOOSE i \in DOMAIN UpperSeq : UpperSeq[i] = c]
    ELSE c

\* String.prototype.toLowerCase
toLowerCase(s) == [i \in DOMAIN s |-> LowerChar(s[i])]

(***************************************************************************)
(* Generic string helpers                                                  *)
(***************************************************************************)
\* s.slice(0, n)
Take(s, n) == SubSeq(s, 1, n)

\* s.slice(n)
Drop(s, n) == SubSeq(s, n + 1, Len(s))

\* The literal w occurs in s at position i (1-based), compared exactly.
MatchAt(s, i, w) ==
  /\ i >= 1
  /\ i + Len(w) - 1 <= Len(s)
  /\ \A k \in 1..Len(w) : s[i + k - 1] = w[k]

\* The same under the i flag (w is given in lower case).
MatchAtCI(s, i, w) ==
  /\ i >= 1
  /\ i + Len(w) - 1 <= Len(s)
  /\ \A k \in 1..Len(w) : LowerChar(s[i + k - 1]) = w[k]

\* String.prototype.startsWith
startsWith(s, w) == MatchAt(s, 1, w)

\* End of the greedy run \s* that starts at i: first position >= i that is
\* not a space (Len(s) + 1 when the spaces reach the end of the string).
SkipSpaces(s, i) ==
  CHOOSE j \in i..(Len(s) + 1) :
    /\ \A k \in i..(j - 1) : IsSpace(s[k])
    /\ j = Len(s) + 1 \/ ~IsSpace(s[j])

\* End of the greedy run \S* that starts at i.
SkipNonSpaces(s, i) ==
  CHOOSE j \in i..(Len(s) + 1) :
    /\ \A k \in i..(j - 1) : ~IsSpace(s[k])
    /\ j = Len(s) + 1 \/ IsSpace(s[j])

\* End of the greedy run \d* that starts at i.
SkipDigits(s, i) ==
  CHOOSE j \in i..(Len(s) + 1) :
    /\ \A k \in i..(j - 1) : IsDigit(s[k])
    /\ j = Len(s) + 1 \/ ~IsDigit(s[j])

\* String.prototype.trim
trim(s) ==
  IF \A k \in DOMAIN s : IsSpace(s[k])
    THEN << >>
    ELSE LET first == CHOOSE i \in DOMAIN s :
                        ~IsSpace(s[i]) /\ \A k \in 1..(i - 1) : IsSpace(s[k])
             last  == CHOOSE j \in DOMAIN s :
                        ~IsSpace(s[j]) /\ \A k \in (j + 1)..Len(s) : IsSpace(s[k])
         IN  SubSeq(s, first, last)

\* F applied to the value of x (const v = x; ... in the source): x is
\* evaluated once, however often F uses its argument.
Let1(x, F(_)) == CHOOSE r \in { F(v) : v \in { x } } : TRUE

\* Truncate s before the leftmost position that satisfies At (a regular
\* expression anchored with $ and replaced by '').
CutAtFirst(s, At(_, _)) ==
  IF \E i \in DOMAIN s : At(s, i)
    THEN LET i == CHOOSE i \in DOMAIN s :
                    At(s, i) /\ \A k \in 1..(i - 1) : ~At(s, k)
         IN  Take(s, i - 1)
    ELSE s

(***************************************************************************)
(* NormalizationService (normalization.service.ts): Unicode NFKC, removal  *)
(* of diacritics, lower case.  Of the characters used here only the        *)
(* accented letters are changed by NFKC and the removal of combining marks.*)
(***************************************************************************)
AccentedSeq == << "é", "ö" >>

BaseSeq == << "e", "o" >>

RemoveDiacritic(c) ==
  IF c \in Range(AccentedSeq)
    THEN BaseSeq[CHOOSE i \in DOMAIN AccentedSeq : AccentedSeq[i] = c]
    ELSE c

\* normalizationService.normalize(str)
NSNormalize(str) == [i \in DOMAIN str |-> LowerChar(RemoveDiacritic(str[i]))]

(***************************************************************************)
(* normalize                                                               *)
(***************************************************************************)
Www == << "w","w","w","." >>

\* /\bwww\.\S+/ matches at position i
UrlAt(s, i) ==
  /\ i = 1 \/ ~IsWord(s[i - 1])
  /\ MatchAtCI(s, i, Www)
  /\ i + Len(Www) <= Len(s)
  /\ ~IsSpace(s[i + Len(Www)])

RECURSIVE StripUrlsFrom(_, _)
StripUrlsFrom(s, i) ==
  IF i > Len(s) THEN << >>
  ELSE IF UrlAt(s, i) THEN StripUrlsFrom(s, SkipNonSpaces(s, i + Len(Www)))
  ELSE << s[i] >> \o StripUrlsFrom(s, i + 1)

\* .replace(/\bwww\.\S+/gi, '')
StripUrls(s) == StripUrlsFrom(s, 1)

\* /\s+kw\.?\s+.*$/i (dot = TRUE) or /\s+kw\s+.*$/i (dot = FALSE) matches
\* at position i
ClauseAt(s, i, kw, dot) ==
  /\ IsSpace(s[i])
  /\ LET j == SkipSpaces(s, i)
         k == j + Len(kw)
         \* \s+.*$ from the space at m: after the run of spaces no line
         \* terminator is left before the end of the string
         ToEnd(m) ==
           \A p \in SkipSpaces(s, m)..Len(s) : ~IsLineTerminator(s[p])
     IN  /\ MatchAtCI(s, j, kw)
         /\ \/ k <= Len(s) /\ IsSpace(s[k]) /\ ToEnd(k)
            \/ /\ dot /\ k + 1 <= Len(s) /\ s[k] = "." /\ IsSpace(s[k + 1])
               /\ ToEnd(k + 1)

FeatAt(s, i) == ClauseAt(s, i, << "f","e","a","t" >>, TRUE)

FtAt(s, i) == ClauseAt(s, i, << "f","t" >>, TRUE)

FeaturingAt(s, i) ==
  ClauseAt(s, i, << "f","e","a","t","u","r","i","n","g" >>, FALSE)

\* /\s+\d{2,3}\s*$/ matches at position i
BpmAt(s, i) ==
  /\ IsSpace(s[i])
  /\ LET j == SkipSpaces(s, i)
         k == SkipDigits(s, j)
     IN  /\ k - j \in { 2, 3 }
         /\ SkipSpaces(s, k) = Len(s) + 1

\* .replace(/[^\w\s]/g, '')
StripPunctuation(s) == SelectSeq(s, LAMBDA c : IsWord(c) \/ IsSpace(c))

RECURSIVE CollapseFrom(_, _)
CollapseFrom(s, i) ==
  IF i > Len(s) THEN << >>
  ELSE IF IsSpace(s[i]) THEN << " " >> \o CollapseFrom(s, SkipSpaces(s, i))
  ELSE << s[i] >> \o CollapseFrom(s, i + 1)

\* .replace(/\s+/g, ' ')
CollapseSpaces(s) == CollapseFrom(s, 1)

normalize(str) ==
  IF Falsy(str) THEN << >>
  ELSE Let1(NSNormalize(str),         LAMBDA n0 :
       Let1(StripUrls(n0),            LAMBDA n1 :
       Let1(CutAtFirst(n1, FeatAt),      LAMBDA n2 :
       Let1(CutAtFirst(n2, FtAt),        LAMBDA n3 :
       Let1(CutAtFirst(n3, FeaturingAt), LAMBDA n4 :
       Let1(CutAtFirst(n4, BpmAt),       LAMBDA n5 :
       Let1(StripPunctuation(n5),     LAMBDA n6 :
       Let1(CollapseSpaces(n6),       LAMBDA n7 : trim(n7)))))))))

(***************************************************************************)
(* extractCoreTitle                                                        *)
(***************************************************************************)
\* The keyword vocabulary of the version extractor.
VersionKeywords ==
  { << "r","e","m","i","x" >>, << "m","i","x" >>, << "e","d","i","t" >>,
    << "r","e","w","o","r","k" >>, << "b","o","o","t","l","e","g" >>,
    << "m","a","s","h","u","p" >>, << "v","e","r","s","i","o","n" >>,
    << "r","a","d","i","o" >>, << "c","l","u","b" >>,
    << "e","x","t","e","n","d","e","d" >>, << "v","o","c","a","l" >>,
    << "i","n","s","t","r","u","m","e","n","t","a","l" >>,
    << "d","u","b" >>, << "o","r","i","g","i","n","a","l" >>,
    << "l","i","v","e" >>, << "a","c","o","u","s","t","i","c" >>,
    << "u","n","p","l","u","g","g","e","d" >>,
    << "r","e","m","a","s","t","e","r" >>, << "d","e","m","o" >>,
    << "v","i","p" >> }

HasVersionKeyword(s) ==
  \E kw \in VersionKeywords : \E i \in DOMAIN s : MatchAtCI(s, i, kw)

\* The opening bracket that belongs to the closing bracket ending s.
OpenerOf(c) == IF c = ")" THEN "(" ELSE "["

\* s ends with a parenthetical or bracket group: "... (xxx)" or "... [xxx]"
EndsWithGroup(s) ==
  /\ s # << >>
  /\ s[Len(s)] \in { ")", "]" }
  /\ \E i \in 1..(Len(s) - 1) : s[i] = OpenerOf(s[Len(s)])

\* Position of the opening bracket of the trailing group.
GroupStart(s) ==
  CHOOSE i \in 1..(Len(s) - 1) :
    /\ s[i] = OpenerOf(s[Len(s)])
    /\ \A k \in (i + 1)..(Len(s) - 1) : s[k] # OpenerOf(s[Len(s)])

\* normalizationService.extractVersionInfo(title): a trailing group that
\* holds a version keyword is the version, the rest is the core.
extractVersionInfo(title) ==
  Let1(trim(title), LAMBDA s :
    IF EndsWithGroup(s)
      THEN Let1(SubSeq(s, GroupStart(s) + 1, Len(s) - 1), LAMBDA group :
             IF HasVersionKeyword(group)
               THEN [ core    |-> trim(Take(s, GroupStart(s) - 1)),
                      version |-> group ]
               ELSE [ core |-> s, version |-> << >> ])
      ELSE [ core |-> s, version |-> << >> ])

Mix == << "m","i","x" >>

\* /\s+<word>\s+mix\s*$/i matches at position i
TrailingMixAt(s, i, word) ==
  /\ IsSpace(s[i])
  /\ LET j == SkipSpaces(s, i)
         k == j + Len(word)
     IN  /\ MatchAtCI(s, j, word)
         /\ k <= Len(s) /\ IsSpace(s[k])
         /\ LET m == SkipSpaces(s, k)
            IN  /\ MatchAtCI(s, m, Mix)
                /\ SkipSpaces(s, m + Len(Mix)) = Len(s) + 1

OriginalMixAt(s, i) ==
  TrailingMixAt(s, i, << "o","r","i","g","i","n","a","l" >>)

ExtendedMixAt(s, i) ==
  TrailingMixAt(s, i, << "e","x","t","e","n","d","e","d" >>)

extractCoreTitle(title) ==
  IF Falsy(title) THEN << >>
  ELSE Let1(StripUrls(title),                  LAMBDA stripped :
       Let1(trim(stripped),                    LAMBDA cleaned :
       Let1(extractVersionInfo(cleaned).core,  LAMBDA core :
       Let1(CutAtFirst(core, OriginalMixAt),   LAMBDA c1 :
       Let1(CutAtFirst(c1, ExtendedMixAt),     LAMBDA c2 :
       Let1(trim(c2),                          LAMBDA coreClean :
         normalize(coreClean)))))))

(***************************************************************************)
(* normalizeArtist                                                         *)
(***************************************************************************)
The == << "t","h","e"," " >>

normalizeArtist(artist) ==
  IF Falsy(artist) THEN << >>
  ELSE Let1(normalize(artist), LAMBDA normalized :
         IF startsWith(normalized, The)
           THEN Drop(normalized, 4)
           ELSE normalized)

(***************************************************************************)
(* levenshteinDistance, calculateSimilarity                                *)
(***************************************************************************)
Min2(a, b) == IF a <= b THEN a ELSE b

Max2(a, b) == IF a >= b THEN a ELSE b

\* Row i of the matrix from row i - 1 (prev), for the character c2 of str2;
\* cur holds the columns 0..j-1 already filled.  Sequences are 1-based:
\* column j is element j + 1.
RECURSIVE LevRow(_, _, _, _)
LevRow(str1, c2, prev, cur) ==
  IF Len(cur) > Len(str1) THEN cur
  ELSE LET j == Len(cur)
           v == IF c2 = str1[j]
                  THEN prev[j]
                  ELSE Min2(prev[j] + 1, Min2(cur[j] + 1, prev[j + 1] + 1))
       IN  Let1(Append(cur, v), LAMBDA next : LevRow(str1, c2, prev, next))

\* matrix holds the rows 0..i-1 already filled.
RECURSIVE LevRows(_, _, _)
LevRows(str1, str2, matrix) ==
  IF Len(matrix) > Len(str2) THEN matrix
  ELSE LET i == Len(matrix)
       IN  Let1(LevRow(str1, str2[i], matrix[i], << i >>), LAMBDA row :
           Let1(Append(matrix, row), LAMBDA next :
             LevRows(str1, str2, next)))

\* levenshteinDistance without the loop that fills row 0 with j
levenshteinDistance_ZeroFirstRow(str1, str2) ==
  Let1(<< [j \in 1..(Len(str1) + 1) |-> 0] >>, LAMBDA row0 :
  Let1(LevRows(str1, str2, row0), LAMBDA matrix :
    matrix[Len(str2) + 1][Len(str1) + 1]))

levenshteinDistance(str1, str2) ==
  Let1(<< [j \in 1..(Len(str1) + 1) |-> j - 1] >>, LAMBDA row0 :
  Let1(LevRows(str1, str2, row0), LAMBDA matrix :
    matrix[Len(str2) + 1][Len(str1) + 1]))

\* calculateSimilarity with Math.min for Math.max
calculateSimilarity_MinLength(str1, str2) ==
  Let1(levenshteinDistance(str1, str2), LAMBDA distance :
    LET maxLength == Min2(Len(str1), Len(str2))
    IN  IF maxLength = 0
          THEN [ num |-> 100, den |-> 1 ]
          ELSE [ num |-> (maxLength - distance) * 100, den |-> maxLength ])

\* The percentage ((maxLength - distance) / maxLength) * 100 as the exact
\* fraction num / den.
calculateSimilarity(str1, str2) ==
  Let1(levenshteinDistance(str1, str2), LAMBDA distance :
    LET maxLength == Max2(Len(str1), Len(str2))
    IN  IF maxLength = 0
          THEN [ num |-> 100, den |-> 1 ]
          ELSE [ num |-> (maxLength - distance) * 100, den |-> maxLength ])

FUZZY_MATCH_THRESHOLD == 85

\* sim >= n for a fraction sim and an integer n
SimAtLeast(sim, n) == sim.num >= n * sim.den

\* A result that reports titleSim whatever coreSim is
SimMax_TitleOnly(a, b) == a

\* Math.max of two fractions
SimMax(a, b) == IF a.num * b.den >= b.num * a.den THEN a ELSE b

(***************************************************************************)
(* buildLocalIndex                                                         *)
(* A track is [id, title, artist, primary_artist]; album, genre, file_path *)
(* and super_genre are never read by the engine.                           *)
(***************************************************************************)
Dash == << " ","-"," " >>

\* a.toLowerCase().trim() + ' - '
PrefixPattern(a) == trim(toLowerCase(a)) \o Dash

\* stripArtistPrefix without its first line: title.toLowerCase() is called
\* on whatever the title is.
stripArtistPrefix_NoGuard(title, artist, rawArtist) ==
  IF title = Null THEN TypeError
  ELSE Let1(toLowerCase(title), LAMBDA titleLower :
       Let1(SelectSeq(<< artist, rawArtist >>, LAMBDA a : ~Falsy(a)),
            LAMBDA cands :
         LET Hit(k) == startsWith(titleLower, PrefixPattern(cands[k]))
         IN  IF \E k \in DOMAIN cands : Hit(k)
               THEN LET k == CHOOSE k \in DOMAIN cands :
                               Hit(k) /\ \A m \in 1..(k - 1) : ~Hit(m)
                    IN  trim(Drop(title, Len(PrefixPattern(cands[k]))))
               ELSE title))

stripArtistPrefix(title, artist, rawArtist) ==
  IF Falsy(title) \/ Falsy(artist)
    THEN (IF Falsy(title) THEN << >> ELSE title)
    ELSE Let1(toLowerCase(title), LAMBDA titleLower :
         Let1(SelectSeq(<< artist, rawArtist >>, LAMBDA a : ~Falsy(a)),
              LAMBDA cands :
           LET Hit(k) == startsWith(titleLower, PrefixPattern(cands[k]))
           IN  IF \E k \in DOMAIN cands : Hit(k)
                 THEN LET k == CHOOSE k \in DOMAIN cands :
                                 Hit(k) /\ \A m \in 1..(k - 1) : ~Hit(m)
                      IN  trim(Drop(title, Len(PrefixPattern(cands[k]))))
                 ELSE title))

\* track.primary_artist || track.artist
EffectiveArtist(track) ==
  IF Falsy(track.primary_artist) THEN track.artist ELSE track.primary_artist

\* stripArtistPrefix(track.title, artist, track.artist)
EffectiveTitle(track) ==
  Let1(EffectiveArtist(track), LAMBDA artist :
    stripArtistPrefix(track.title, artist, track.artist))

\* `${a}_${b}`
Key(a, b) == a \o << "_" >> \o b

\* localTracks.map(f) collected into a Set
MapToSet(localTracks, f(_)) == { f(localTracks[i]) : i \in DOMAIN localTracks }

\* The exact key taken from the raw title, without stripArtistPrefix
ExactKeyOf_RawTitle(track) ==
  Let1(EffectiveArtist(track), LAMBDA artist :
    Key(normalize(track.title), normalizeArtist(artist)))

\* The body of the first map of buildLocalIndex
ExactKeyOf(track) ==
  Let1(EffectiveArtist(track), LAMBDA artist :
  Let1(EffectiveTitle(track),  LAMBDA title :
    Key(normalize(title), normalizeArtist(artist))))

\* The body of the second map
CoreKeyOf(track) ==
  Let1(EffectiveArtist(track), LAMBDA artist :
  Let1(EffectiveTitle(track),  LAMBDA title :
    Key(extractCoreTitle(title), normalizeArtist(artist))))

\* The body of the third map
RecordOf(track) ==
  Let1(EffectiveArtist(track), LAMBDA artist :
  Let1(EffectiveTitle(track),  LAMBDA title :
    [ track     |-> track,
      title     |-> normalize(title),
      coreTitle |-> extractCoreTitle(title),
      artist    |-> normalizeArtist(artist) ]))

\* A buildLocalIndex whose key sets hold the keys of the last track only
buildLocalIndex_KeepsLastKey(localTracks) ==
  LET last == IF localTracks = << >> THEN << >>
              ELSE << localTracks[Len(localTracks)] >>
  IN  [ exactSet   |-> MapToSet(last, ExactKeyOf),
        coreSet    |-> MapToSet(last, CoreKeyOf),
        normalized |-> [i \in DOMAIN last |-> RecordOf(last[i])] ]

buildLocalIndex(localTracks) ==
  [ exactSet   |-> MapToSet(localTracks, ExactKeyOf),
    coreSet    |-> MapToSet(localTracks, CoreKeyOf),
    normalized |-> [i \in DOMAIN localTracks |-> RecordOf(localTracks[i])] ]

\* buildLocalIndex ends with an uncaught exception
buildLocalIndexThrows(localTracks) ==
  \E i \in DOMAIN localTracks : EffectiveTitle(localTracks[i]) = TypeError

(***************************************************************************)
(* matchTrack                                                              *)
(***************************************************************************)
\* tier: null
TierNone == 0

\* matchedLocalTrack absent from a MatchResult
NoTrack == [ id |-> 0, title |-> Null, artist |-> Null, primary_artist |-> Null ]

\* similarity absent from a MatchResult
NoSimilarity == [ num |-> 0, den |-> 0 ]

\* A loop that keeps running after a hit and returns the last one
FirstOf_Last(hits) ==
  IF hits = {} THEN 0
  ELSE CHOOSE i \in hits : \A k \in hits : k <= i

\* The position at which a for ... of loop with a return in the body
\* stops, given the positions whose element satisfies the condition of
\* the return: the first of them, 0 when the loop runs to its end.
FirstOf(hits) ==
  IF hits = {} THEN 0
  ELSE CHOOSE i \in hits : \A k \in hits : i <= k

\* Index of the first element of the list that satisfies P
FirstIndex(list, P(_)) == FirstOf({ i \in DOMAIN list : P(list[i]) })

\* The condition of the cross-tier loop body for one record (tier 2b)
CrossHit(local, spotifyTitle, spotifyCoreTitle, spotifyArtist) ==
  /\ local.artist = spotifyArtist
  /\ spotifyTitle = local.coreTitle \/ spotifyCoreTitle = local.title

\* The fuzzy condition without `if (local.artist !== spotifyArtist) continue`
FuzzyHit_NoArtistGate(local, spotifyTitle, spotifyCoreTitle, spotifyArtist) ==
  LET titleSim == calculateSimilarity(local.title, spotifyTitle)
      coreSim  == calculateSimilarity(local.coreTitle, spotifyCoreTitle)
  IN  \/ SimAtLeast(titleSim, FUZZY_MATCH_THRESHOLD)
      \/ SimAtLeast(coreSim, FUZZY_MATCH_THRESHOLD)

\* The condition of the fuzzy loop body for one record (tier 3)
FuzzyHit(local, spotifyTitle, spotifyCoreTitle, spotifyArtist) ==
  /\ local.artist = spotifyArtist
  /\ LET titleSim == calculateSimilarity(local.title, spotifyTitle)
         coreSim  == calculateSimilarity(local.coreTitle, spotifyCoreTitle)
     IN  \/ SimAtLeast(titleSim, FUZZY_MATCH_THRESHOLD)
         \/ SimAtLeast(coreSim, FUZZY_MATCH_THRESHOLD)

\* The core-key lookup placed before the exact-key lookup
Cascade_CoreFirst(exact, core, cross, fuzzy) ==
  IF core THEN "core"
  ELSE IF exact THEN "exact"
  ELSE IF cross # 0 THEN "cross"
  ELSE IF fuzzy # 0 THEN "fuzzy"
  ELSE "none"

\* A cascade without the two key lookups
Cascade_ScanOnly(exact, core, cross, fuzzy) ==
  IF cross # 0 THEN "cross"
  ELSE IF fuzzy # 0 THEN "fuzzy"
  ELSE "none"

\* A cascade whose two scanning tiers share one loop: the record met
\* first decides between them
Cascade_SingleScan(exact, core, cross, fuzzy) ==
  IF exact THEN "exact"
  ELSE IF core THEN "core"
  ELSE IF cross # 0 /\ (fuzzy = 0 \/ cross < fuzzy) THEN "cross"
  ELSE IF fuzzy # 0 THEN "fuzzy"
  ELSE "none"

\* The order of the return statements of matchTrack: which one is taken,
\* given what each tier found (cross and fuzzy are record indexes, 0 for
\* none).
Cascade(exact, core, cross, fuzzy) ==
  IF exact THEN "exact"
  ELSE IF core THEN "core"
  ELSE IF cross # 0 THEN "cross"
  ELSE IF fuzzy # 0 THEN "fuzzy"
  ELSE "none"

\* The MatchResult of matchTrack from the normalized strings of the track
MatchResultOf(spotifyTrack, localIndex, spotifyTitle, spotifyCoreTitle, spotifyArtist) ==
  LET baseResult ==
        [ spotifyTrack            |-> spotifyTrack,
          normalizedSpotifyTitle  |-> spotifyTitle,
          normalizedSpotifyArtist |-> spotifyArtist,
          matched                 |-> FALSE,
          tier                    |-> TierNone,
          matchedLocalTrack       |-> NoTrack,
          similarity              |-> NoSimilarity,
          normalizedLocalTitle    |-> Null,
          normalizedLocalArtist   |-> Null ]
      exactKey == Key(spotifyTitle, spotifyArtist)
      coreKey  == Key(spotifyCoreTitle, spotifyArtist)
      Cross(rec) == CrossHit(rec, spotifyTitle, spotifyCoreTitle, spotifyArtist)
      Fuzzy(rec) == FuzzyHit(rec, spotifyTitle, spotifyCoreTitle, spotifyArtist)
  IN  Let1(FirstIndex(localIndex.normalized, Cross), LAMBDA cross :
      Let1(FirstIndex(localIndex.normalized, Fuzzy), LAMBDA fuzzy :
      Let1(Cascade(exactKey \in localIndex.exactSet,
                   coreKey \in localIndex.coreSet, cross, fuzzy),
           LAMBDA taken :
        CASE taken = "exact" ->
               [ baseResult EXCEPT !.matched = TRUE, !.tier = 1 ]
          [] taken = "core" ->
               [ baseResult EXCEPT !.matched = TRUE, !.tier = 2 ]
          [] taken = "cross" ->
               [ baseResult EXCEPT
                   !.matched = TRUE, !.tier = 2,
                   !.matchedLocalTrack = localIndex.normalized[cross].track ]
          [] taken = "fuzzy" ->
               LET hit == localIndex.normalized[fuzzy]
               IN  [ baseResult EXCEPT
                       !.matched = TRUE, !.tier = 3,
                       !.matchedLocalTrack = hit.track,
                       !.similarity =
                         SimMax(calculateSimilarity(hit.title, spotifyTitle),
                                calculateSimilarity(hit.coreTitle,
                                                    spotifyCoreTitle)),
                       !.normalizedLocalTitle = hit.title,
                       !.normalizedLocalArtist = hit.artist ]
          [] OTHER -> baseResult)))

matchTrack(spotifyTrack, localIndex) ==
  Let1(normalize(spotifyTrack.title),                    LAMBDA spotifyTitle :
  Let1(extractCoreTitle(spotifyTrack.title),             LAMBDA spotifyCoreTitle :
  Let1(normalizeArtist(EffectiveArtist(spotifyTrack)),   LAMBDA spotifyArtist :
    MatchResultOf(spotifyTrack, localIndex,
                  spotifyTitle, spotifyCoreTitle, spotifyArtist))))

\* A matchTrack that deletes the keys it looked up from the shared index
IndexAfterMatch_Consume(spotifyTrack, localIndex) ==
  Let1(normalizeArtist(EffectiveArtist(spotifyTrack)), LAMBDA spotifyArtist :
    [ localIndex EXCEPT
        !.exactSet = @ \ { Key(normalize(spotifyTrack.title), spotifyArtist) },
        !.coreSet  = @ \ { Key(extractCoreTitle(spotifyTrack.title),
                               spotifyArtist) } ])

\* The LocalIndex as matchTrack leaves it: matchTrack writes to no field of
\* its arguments.
IndexAfterMatch(spotifyTrack, localIndex) == localIndex

(***************************************************************************)
(* findMissingTracksPure                                                   *)
(***************************************************************************)
\* A map that skips a streaming track repeated later in the list
RECURSIVE MapMatch_Dedup(_, _)
MapMatch_Dedup(spotifyTracks, localIndex) ==
  IF spotifyTracks = << >> THEN << >>
  ELSE LET st   == Head(spotifyTracks)
           rest == Tail(spotifyTracks)
       IN  IF \E k \in DOMAIN rest :
                rest[k].title = st.title /\ rest[k].artist = st.artist
             THEN MapMatch_Dedup(rest, localIndex)
             ELSE << matchTrack(st, localIndex) >>
                    \o MapMatch_Dedup(rest, localIndex)

\* spotifyTracks.map(st => matchTrack(st, localIndex))
RECURSIVE MapMatch(_, _)
MapMatch(spotifyTracks, localIndex) ==
  IF spotifyTracks = << >> THEN << >>
  ELSE << matchTrack(Head(spotifyTracks), localIndex) >>
         \o MapMatch(Tail(spotifyTracks), localIndex)

findMissingTracksPure(spotifyTracks, localTracks) ==
  Let1(buildLocalIndex(localTracks), LAMBDA localIndex :
    MapMatch(spotifyTracks, localIndex))

(***************************************************************************)
(* TrackMatchingService.findMissingTracks (trackMatching.service.ts)       *)
(* The two fetches return the rows of the database: localTracks and        *)
(* spotifyTracks.  The debug logging writes to the console only.           *)
(***************************************************************************)
\* The body of the loop over spotifyTracks reaches a `continue` of a tier
LiveMatched(spotifyTrack, localIndex) ==
  Let1(normalize(spotifyTrack.title),                    LAMBDA spotifyTitle :
  Let1(extractCoreTitle(spotifyTrack.title),             LAMBDA spotifyCoreTitle :
  Let1(normalizeArtist(EffectiveArtist(spotifyTrack)),   LAMBDA spotifyArtist :
    \/ Key(spotifyTitle, spotifyArtist) \in localIndex.exactSet
    \/ Key(spotifyCoreTitle, spotifyArtist) \in localIndex.coreSet
    \/ \E k \in DOMAIN localIndex.normalized :
         FuzzyHit(localIndex.normalized[k], spotifyTitle, spotifyCoreTitle,
                  spotifyArtist))))

\* missingTracks as the loop leaves it
findMissingTracks(localTracks, spotifyTracks) ==
  Let1(buildLocalIndex(localTracks), LAMBDA localIndex :
    LET missing == SelectSeq(spotifyTracks,
                             LAMBDA st : ~LiveMatched(st, localIndex))
    IN  [k \in DOMAIN missing |->
           [ spotifyTrack |-> missing[k],
             reason       |-> "No matching local track found" ]])

(***************************************************************************)
(* Evaluation fixtures (scripts/format-eval-export.ts, csv-to-eval.ts)     *)
(* An EvalCase is [id, spotifyTrack, expectedLocalMatch, verdict,          *)
(* failureCategory, notes]; the id "eval-00i" is the number i.             *)
(***************************************************************************)
TrueMissing == "true-missing"

FalseNegative == "false-negative"

VALID_VERDICTS == { TrueMissing, FalseNegative }

\* failureCategory: null
NoCategory == "(null)"

\* candidatesBySpotifyId.get(st.id) || []
CandidatesOf(raw, st) ==
  SelectSeq(raw.candidate_local_matches, LAMBDA c : c.spotify_id = st.id)

\* The cases format-eval-export writes for a raw export
formatEvalExport(raw) ==
  [index \in DOMAIN raw.spotify_tracks |->
     LET st            == raw.spotify_tracks[index]
         candidates    == CandidatesOf(raw, st)
         hasCandidates == Len(candidates) > 0
     IN  [ id                 |-> index,
           spotifyTrack       |-> st,
           expectedLocalMatch |->
             IF hasCandidates THEN candidates[1].local ELSE NoTrack,
           verdict            |->
             IF hasCandidates THEN FalseNegative ELSE TrueMissing,
           failureCategory    |->
             IF hasCandidates THEN "unknown" ELSE NoCategory,
           notes              |->
             IF hasCandidates THEN "candidates" ELSE "no candidates" ]]

\* The case a CSV row leaves of the case of its id
MergedCase(original, row) ==
  LET newVerdict  == row.verdict
      verdict     == IF newVerdict # "" /\ newVerdict # original.verdict
                        /\ newVerdict \in VALID_VERDICTS
                       THEN newVerdict
                       ELSE original.verdict
      newCategory == row.failureCategory
      oldCategory == IF original.failureCategory = NoCategory
                       THEN ""
                       ELSE original.failureCategory
      category    == IF newCategory # oldCategory
                       THEN IF newCategory = "" THEN NoCategory
                                                ELSE newCategory
                       ELSE original.failureCategory
      clear       == verdict = TrueMissing
                       /\ original.expectedLocalMatch # NoTrack
  IN  [ original EXCEPT
          !.verdict            = verdict,
          !.failureCategory    = IF clear THEN NoCategory ELSE category,
          !.notes              = row.notes,
          !.expectedLocalMatch = IF clear THEN NoTrack ELSE @ ]

\* casesById.get(id): the last case of that id, 0 when there is none
CaseById(cases, id) ==
  IF \E i \in DOMAIN cases : cases[i].id = id
    THEN CHOOSE i \in DOMAIN cases :
           cases[i].id = id /\ \A k \in (i + 1)..Len(cases) : cases[k].id # id
    ELSE 0

\* The cases csv-to-eval writes: the rows of the CSV merged one after the
\* other into the cases of their ids
RECURSIVE csvToEval(_, _)
csvToEval(cases, csvRows) ==
  IF csvRows = << >> THEN cases
  ELSE LET row == Head(csvRows)
           at  == CaseById(cases, row.id)
       IN  csvToEval(IF at = 0
                       THEN cases
                       ELSE [cases EXCEPT ![at] = MergedCase(@, row)],
                     Tail(csvRows))

(***************************************************************************)
(* Evaluation harness (services/__tests__, suite Track Matching Eval)      *)
(***************************************************************************)
MAX_FALSE_NEGATIVE_RATE == 1

\* The expected local tracks of the cases that have one
AllLocalTracks(cases) ==
  LET withMatch == SelectSeq(cases, LAMBDA c : c.expectedLocalMatch # NoTrack)
  IN  [i \in DOMAIN withMatch |-> withMatch[i].expectedLocalMatch]

\* The Map the harness fills: id -> matched, a later case of the same id
\* overwriting an earlier one
EvalResultsOf(cases, index) ==
  [id \in { cases[i].id : i \in DOMAIN cases } |->
     matchTrack(cases[CaseById(cases, id)].spotifyTrack, index).matched]

\* results.get(evalCase.id) ?? false
DidMatch(evalCase, evalResults) ==
  IF evalCase.id \in DOMAIN evalResults THEN evalResults[evalCase.id]
                                        ELSE FALSE

\* The category read without its default
CategoryOf_NoDefault(evalCase) == evalCase.failureCategory

\* evalCase.failureCategory || 'unknown'
CategoryOf(evalCase) ==
  IF evalCase.failureCategory \in { NoCategory, "" }
    THEN "unknown"
    ELSE evalCase.failureCategory

\* The number of cases of a verdict that did, or did not, match
CountOf(cases, evalResults, verdict, didMatch) ==
  Cardinality({ i \in DOMAIN cases :
                  /\ cases[i].verdict = verdict
                  /\ DidMatch(cases[i], evalResults) = didMatch })

\* A computeMetrics that leaves out the true-missing cases that matched
computeMetrics_DropsFalsePositives(cases, evalResults) ==
  LET tp == CountOf(cases, evalResults, TrueMissing, FALSE)
      tn == CountOf(cases, evalResults, FalseNegative, TRUE)
      fn == CountOf(cases, evalResults, FalseNegative, FALSE)
  IN  [ totalCases        |-> Len(cases),
        truePositives     |-> tp,
        trueNegatives     |-> tn,
        falseNegatives    |-> fn,
        falsePositives    |-> 0,
        matchRecall       |-> IF tn + fn > 0 THEN [ num |-> tn, den |-> tn + fn ]
                                             ELSE [ num |-> 1, den |-> 1 ],
        falseNegativeRate |-> IF fn + tn > 0 THEN [ num |-> fn, den |-> fn + tn ]
                                             ELSE [ num |-> 0, den |-> 1 ],
        byCategory        |-> << >> ]

\* matchRecall and falseNegativeRate are the fractions num / den
computeMetrics(cases, evalResults) ==
  LET tp == CountOf(cases, evalResults, TrueMissing, FALSE)
      fp == CountOf(cases, evalResults, TrueMissing, TRUE)
      tn == CountOf(cases, evalResults, FalseNegative, TRUE)
      fn == CountOf(cases, evalResults, FalseNegative, FALSE)
      labelled == { i \in DOMAIN cases : cases[i].verdict = FalseNegative }
      InCat(cat) == { i \in labelled : CategoryOf(cases[i]) = cat }
  IN  [ totalCases        |-> Len(cases),
        truePositives     |-> tp,
        trueNegatives     |-> tn,
        falseNegatives    |-> fn,
        falsePositives    |-> fp,
        matchRecall       |-> IF tn + fn > 0 THEN [ num |-> tn, den |-> tn + fn ]
                                             ELSE [ num |-> 1, den |-> 1 ],
        falseNegativeRate |-> IF fn + tn > 0 THEN [ num |-> fn, den |-> fn + tn ]
                                             ELSE [ num |-> 0, den |-> 1 ],
        byCategory        |->
          [cat \in { CategoryOf(cases[i]) : i \in labelled } |->
             [ count     |-> Cardinality(InCat(cat)),
               matched   |-> Cardinality({ i \in InCat(cat) :
                                            DidMatch(cases[i], evalResults) }),
               unmatched |-> Cardinality({ i \in InCat(cat) :
                                            ~DidMatch(cases[i], evalResults) }) ]] ]

\* A metrics report that asserts the false-negative rate alone
ReportPasses_RateOnly(metrics) ==
  metrics.falseNegativeRate.num
    <= MAX_FALSE_NEGATIVE_RATE * metrics.falseNegativeRate.den

\* The two expectations that end the metrics report
ReportPasses(metrics) ==
  /\ metrics.falseNegativeRate.num
       <= MAX_FALSE_NEGATIVE_RATE * metrics.falseNegativeRate.den
  /\ metrics.falsePositives = 0

(***************************************************************************)
(* useLocalScanner.scanLocalFiles (services/directoryHandle.service.ts)    *)
(* The files are counted, not held: a batch is the BATCH_SIZE files from   *)
(* offset i on.  An upsert call is logged as [batch, attempt, ok].         *)
(***************************************************************************)
BATCH_SIZE == 25

MAX_RETRIES == 3

\* Math.floor(i / BATCH_SIZE) + 1
BatchNumber(i) == (i \div BATCH_SIZE) + 1

\* A retry loop that runs one attempt more
MoreAttempts_OneMore(attempt) == attempt <= MAX_RETRIES + 1

\* The condition of the retry loop: attempt <= MAX_RETRIES
MoreAttempts(attempt) == attempt <= MAX_RETRIES

(***************************************************************************)
(* Inputs                                                                  *)
(***************************************************************************)
\* Longest local track list
MaxLocal == 2

\* Longest streaming track list of a batch
MaxStream == 2

\* Most fragments in an input string of normalize
MaxFrags == 4

TSong == << "s","o","n","g" >>

TSongMixP == << "s","o","n","g"," ","(","m","i","x",")" >>

TSongMix == << "s","o","n","g"," ","m","i","x" >>

TSongMixDubP == << "s","o","n","g"," ","m","i","x"," ","(","d","u","b",")" >>

TSongMixDubs == << "s","o","n","g"," ","m","i","x"," ","d","u","b","s" >>

TSongX == << "s","o","n","g","_","x" >>

TPrefixed == << "Y"," ","-"," ","S","o","n","g" >>

AY == << "y" >>

ATheY == << "T","h","e"," ","Y" >>

AXY == << "x","_","y" >>

AZ == << "z" >>

AQ == << "q" >>

\* A track without its id
Shape(title, artist, primary_artist) ==
  [ title |-> title, artist |-> artist, primary_artist |-> primary_artist ]

LocalPool ==
  { Shape(TSong, AY, Null),
    Shape(TSongMixP, AY, Null),
    Shape(TSongMixDubP, AY, Null),
    Shape(TSongMixDubP, AZ, Null),
    Shape(TSongX, AY, Null),
    Shape(TPrefixed, AY, Null),
    Shape(TSong, AZ, AY),
    Shape(TSong, ATheY, Null),
    Shape(Null, Null, Null) }

StreamPool ==
  { Shape(TSong, AY, Null),
    Shape(TSongMixP, AY, Null),
    Shape(TSongMix, AY, Null),
    Shape(TSongMixDubs, AY, Null),
    Shape(TSongMixDubs, AZ, Null),
    Shape(TSong, AXY, Null),
    Shape(TSong, AQ, AY),
    Shape(<< >>, << >>, Null) }

\* The pools of the batch runs
BatchLocalPool ==
  { Shape(TSong, AY, Null), Shape(TSongMixDubP, AY, Null),
    Shape(TSong, AZ, Null) }

BatchStreamPool ==
  { Shape(TSong, AY, Null), Shape(TSongMixDubs, AY, Null),
    Shape(TSong, AQ, Null) }

\* Every combination of null, empty and non-empty fields
FieldShapes == { Null, << >>, << "a" >> }

ShapePool ==
  { Shape(t, a, p) : t \in FieldShapes, a \in FieldShapes, p \in FieldShapes }

\* The lists of at most n elements of pool, each element given its
\* position as id
ListsOf(pool, n) ==
  { [i \in DOMAIN s |->
       [ id |-> i, title |-> s[i].title, artist |-> s[i].artist,
         primary_artist |-> s[i].primary_artist ]] :
    s \in UNION { [1..k -> pool] : k \in 0..n } }

\* The pieces input strings of normalize are made of
Fragments ==
  { << "a" >>, << " " >>, << "f","t" >>, << "." >>, << "(" >>,
    << "1","2" >>, << "w","w","w","." >> }

RECURSIVE Concat(_)
Concat(ss) == IF ss = << >> THEN << >> ELSE Head(ss) \o Concat(Tail(ss))

\* Titles without a version keyword, and one with
TDont == << "D","o","n","'","t" >>

TMix == << "M","i","x" >>

TSongFeatX == << "S","o","n","g"," ","f","e","a","t","."," ","X" >>

VersionTitles == { TSong, TDont, TSongFeatX, TPrefixed, TMix }

\* Version descriptors of the keyword vocabulary
VersionDescriptors ==
  { << "E","x","t","e","n","d","e","d"," ","M","i","x" >>,
    << "R","a","d","i","o"," ","E","d","i","t" >>,
    << "D","u","b" >> }

\* The brackets of a version group
Brackets == { << "(", ")" >>, << "[", "]" >> }

\* "<T> (<V>)" or "<T> [<V>]"
WithVersion(T, V, B) == T \o << " ", B[1] >> \o V \o << B[2] >>

\* Artist names X of a local track, "The X" being the streaming artist
ArtistNames ==
  { << "Y" >>, << "y" >>, << "8","8" >>, << "Y","s" >>, << "x"," ","y" >> }

\* "The " + X
WithThe(X) == << "T","h","e"," " >> \o X

\* Pairs of titles equal up to punctuation and case
TitlePairs ==
  { << << "D","o","n","t" >>, << "D","o","n","'","t" >> >>,
    << << "D","o","n","'","t" >>, << "D","o","n","t" >> >>,
    << << "S","o","n","g" >>, << "s","o","n","g" >> >>,
    << TSong, TSong >> }

\* Most fragments in the text before a featured-artist clause
MaxClauseFrags == 2

\* The pieces of the text before the clause
ClauseFragments ==
  { << "a" >>, << " " >>, << "f","t" >>, << "." >>, << "(" >>,
    << "1","2" >>, << "w","w","w","." >>, << "T","h","e" >> }

ClauseTexts ==
  { Concat(fs) :
      fs \in UNION { [1..k -> ClauseFragments] : k \in 1..MaxClauseFrags } }

\* The keywords that introduce the clause, in lower and in mixed case
ClauseKeywords ==
  { << "f","e","a","t" >>, << "f","e","a","t","." >>, << "f","t" >>, << "f","t","." >>,
    << "f","e","a","t","u","r","i","n","g" >>,
    << "F","e","a","t" >>, << "F","E","A","T","." >>, << "F","T" >>, << "F","t","." >>,
    << "F","e","a","t","u","r","i","n","G" >> }

\* The text after the keyword
ClauseTails == { << >>, << "b" >>, << "b", "\n", "c" >>, << "x"," ","f","t","."," ","(","1","2",")" >> }

\* A followed by whitespace, the keyword, whitespace and B
WithClause(A, ws, kw, B) == A \o ws \o kw \o << " " >> \o B

\* Longest argument of levenshteinDistance
MaxStrLen == 3

\* The characters of the arguments of levenshteinDistance
SimAlphabet == { "a", "b" }

SimStrings == UNION { [1..k -> SimAlphabet] : k \in 0..MaxStrLen }

\* A title, and titles one edit away from it: a substitution (similarity
\* 6/7) and an insertion (similarity 7/8)
TSongAbc == << "s","o","n","g","a","b","c" >>

TSongAbd == << "s","o","n","g","a","b","d" >>

TSongAbcd == << "s","o","n","g","a","b","c","d" >>

TSongMixEditP == << "s","o","n","g"," ","m","i","x"," ","(","e","d","i","t",")" >>

TSongAbcDubP == << "s","o","n","g","a","b","c"," ","(","d","u","b",")" >>

TSongMixx == << "s","o","n","g"," ","m","i","x","x" >>

\* Local tracks of which several satisfy the condition of a scanning tier
OrderLocalPool ==
  { Shape(TSongAbc, AY, Null),
    Shape(TSongAbd, AY, Null),
    Shape(TSongAbcd, AY, Null),
    Shape(TSongMixx, AY, Null),
    Shape(TSongMixDubP, AY, Null),
    Shape(TSongMixEditP, AY, Null) }

OrderStreamPool ==
  { Shape(TSongAbc, AY, Null), Shape(TSongAbcDubP, AY, Null),
    Shape(TSongMixP, AY, Null) }

\* Local and streaming tracks of the live service
LiveLocalPool ==
  { Shape(TSong, AY, Null), Shape(TSongMixDubP, AY, Null),
    Shape(TSongX, AY, Null) }

LiveStreamPool ==
  { Shape(TSong, AY, Null), Shape(TSongMixP, AY, Null),
    Shape(TSongMixDubs, AY, Null), Shape(TSong, AQ, Null) }

\* The most streaming tracks of a raw export
MaxCases == 2

\* The local tracks that are candidates
EvalLocalSong == [ id |-> 1, title |-> TSong, artist |-> AY, primary_artist |-> Null ]

EvalLocalOther == [ id |-> 2, title |-> TSongX, artist |-> AY, primary_artist |-> Null ]

\* The unmatched streaming tracks of a raw export, each with the local
\* tracks by its artist: none for "The Y", which the export query does not
\* take for "y"
EvalTrackPool ==
  { [ track |-> Shape(TSong, ATheY, Null), locals |-> << >> ],
    [ track |-> Shape(TSongMixP, AY, Null),
      locals |-> << EvalLocalSong, EvalLocalOther >> ],
    [ track |-> Shape(TSongMix, AY, Null), locals |-> << EvalLocalOther >> ] }

\* The candidate rows of the streaming track of an id
CandidateRows(spotify_id, locals) ==
  [k \in DOMAIN locals |-> [ spotify_id |-> spotify_id, local |-> locals[k] ]]

RawExportOf(s) ==
  [ spotify_tracks          |->
      [i \in DOMAIN s |->
         [ id |-> i, title |-> s[i].track.title, artist |-> s[i].track.artist,
           primary_artist |-> s[i].track.primary_artist ]],
    candidate_local_matches |->
      Concat([i \in DOMAIN s |-> CandidateRows(i, s[i].locals)]) ]

RawExports ==
  { RawExportOf(s) : s \in UNION { [1..k -> EvalTrackPool] : k \in 0..MaxCases } }

\* The rows of an edited CSV: the id of a case or of none, a verdict left
\* empty, valid or invalid, a category cleared or set
CsvRows ==
  [ id              : 1..(MaxCases + 1),
    verdict         : { "", TrueMissing, FalseNegative, "maybe" },
    failureCategory : { "", "title-mismatch" },
    notes           : { "reviewed" } ]

\* The CSVs of no row, of one row, and of a row that sets true-missing
\* before a row that sets false-negative
CsvFiles ==
  { << >> } \cup { << r >> : r \in CsvRows }
    \cup { << r1, r2 >> :
             r1 \in { r \in CsvRows : r.verdict = TrueMissing
                                        /\ r.failureCategory = "" },
             r2 \in { r \in CsvRows : r.verdict = FalseNegative
                                        /\ r.failureCategory = "" } }

\* The most batches of a scan
MaxBatches == 2

\* The numbers of files a scan finds: none, and for each number of batches
\* a last batch of one file and a full last batch
FileCounts ==
  { 0 } \cup { (k - 1) * BATCH_SIZE + 1 : k \in 1..MaxBatches }
        \cup { k * BATCH_SIZE : k \in 1..MaxBatches }

\* Titles T that follow an artist prefix, and the ways a track names the
\* artist "y": [artist, primary_artist]
TFtX == << " ","f","t"," ","x" >>

PrefixTitles == { TSong, TSongMixP, TPrefixed, TFtX }

AUpperY == << "Y" >>

APaddedY == << " ","Y"," " >>

PrefixArtists ==
  { << AY, Null >>, << AUpperY, Null >>, << APaddedY, Null >>,
    << AZ, AUpperY >>, << AY, AZ >> }

PrefixNames == { AY, AUpperY }

\* "<A> - <T>"
WithPrefix(A, T) == A \o Dash \o T

\* A equals the name, compared case-insensitively, trimmed
NamesArtist(A, name) ==
  ~Falsy(name) /\ toLowerCase(A) = trim(toLowerCase(name))

\* The ways of PrefixArtists whose artist or primary_artist is A
ArtistsNamed(A) ==
  { n \in PrefixArtists : NamesArtist(A, n[1]) \/ NamesArtist(A, n[2]) }

\* The track titled "<A> - <T>" followed by the same track titled "<T>"
PrefixPairs ==
  UNION { { << [ id |-> 1, title |-> WithPrefix(A, T), artist |-> n[1],
                 primary_artist |-> n[2] ],
               [ id |-> 2, title |-> T, artist |-> n[1],
                 primary_artist |-> n[2] ] >> :
            T \in PrefixTitles, n \in ArtistsNamed(A) } :
          A \in PrefixNames }

\* Whitespace-delimited tokens of the form www.<non-space>
UrlTokens ==
  { << "w","w","w",".","x" >>,
    << "W","W","W",".","a","-","b",".","c","o","m","/","1","2" >> }

WithUrl(A, token) == A \o << " " >> \o token

\* Texts with a parenthesised featured-artist clause
ParenClauseInputs ==
  { << "a"," ","(","f","e","a","t","."," ","b",")" >>,
    << "a"," ","(","f","t"," ","b",")" >>,
    << "a"," ","[","F","e","a","t","u","r","i","n","g"," ","b","]" >> }

NormInputs ==
  { Null } \cup ParenClauseInputs \cup
    { Concat(fs) : fs \in UNION { [1..k -> Fragments] : k \in 0..MaxFrags } }

(***************************************************************************)
(* State                                                                   *)
(***************************************************************************)
VARIABLES
  localTracks,    \* the LocalTrack[] given to buildLocalIndex
  spotifyTracks,  \* the SpotifyTrack[] to match
  localIndex,     \* the LocalIndex shared by the matchTrack calls
  results,        \* results[i]: << the MatchResult of the last matchTrack
                  \*   call for spotifyTracks[i] >>, << >> before the first
  batch,          \* the MatchResult[] returned by findMissingTracksPure
  str,            \* the argument of normalize
  out,            \* the value normalize returned
  prev,           \* the argument of the last normalize call
  strA,           \* the text of str before its featured-artist clause
  str1,           \* the first argument of levenshteinDistance and
                  \*   calculateSimilarity
  str2,           \* the second argument
  distance,       \* << the value levenshteinDistance returned >>
  similarity,     \* << the value calculateSimilarity returned >>
  rawExport,      \* the raw export given to format-eval-export
  fixture,        \* the cases of the fixture file
  evalResults,    \* the Map id -> matched of the metrics report
  metrics,        \* << the EvalMetrics of the metrics report >>
  passed,         \* << whether the metrics report passed >>
  missingTracks,  \* << the MissingTrack[] findMissingTracks returned >>
  user,           \* whether the hook holds a signed-in user
  onScanComplete, \* whether the hook was given the callback
  isScanning,     \* the isScanning state of the hook
  localFiles,     \* the number of files scanDirectoryForLocalFiles found
  offset,         \* the offset i of the batch loop
  attempt,        \* the counter of the retry loop
  success,        \* the success flag of the retry loop
  upsertLog,      \* the upsert calls made, in order
  completeCalls,  \* the number of calls of onScanComplete
  scanPc,         \* where scanLocalFiles is
  pc              \* where the run is

\* The state of a similarity computation
simVars == << str1, str2, distance, similarity >>

\* The state of the evaluation tooling
evalVars == << rawExport, fixture, evalResults, metrics, passed >>

\* The state of the scanner hook
scanVars ==
  << user, onScanComplete, isScanning, localFiles, offset, attempt, success,
     upsertLog, completeCalls, scanPc >>

\* The state of the live service and of the scanner
auxVars == << missingTracks, scanVars >>

\* The state of the matching engine and its tooling
matchingVars ==
  << localTracks, spotifyTracks, localIndex, results, batch, str, out, prev,
     strA, simVars, evalVars, missingTracks, pc >>

vars ==
  << localTracks, spotifyTracks, localIndex, results, batch, str, out, prev,
     strA, simVars, evalVars, auxVars, pc >>

NoIndex == [ exactSet |-> {}, coreSet |-> {}, normalized |-> << >> ]

\* scanLocalFiles has not been called
ScanStart ==
  /\ isScanning = FALSE
  /\ localFiles = 0
  /\ offset = 0
  /\ attempt = 0
  /\ success = FALSE
  /\ upsertLog = << >>
  /\ completeCalls = 0
  /\ scanPc = "idle"

\* The live service has not run, and there is no scanner
AuxIdle ==
  /\ missingTracks = << >>
  /\ user = FALSE
  /\ onScanComplete = FALSE
  /\ ScanStart

\* No evaluation under way
EvalIdle ==
  /\ rawExport = [ spotify_tracks |-> << >>, candidate_local_matches |-> << >> ]
  /\ fixture = << >>
  /\ evalResults = << >>
  /\ metrics = << >>
  /\ passed = << >>

\* No similarity computation under way
SimIdle ==
  /\ str1 = << >>
  /\ str2 = << >>
  /\ distance = << >>
  /\ similarity = << >>

InitWith(locals, spotifys) ==
  /\ localTracks = locals
  /\ spotifyTracks = spotifys
  /\ localIndex = NoIndex
  /\ results = [i \in DOMAIN spotifys |-> << >>]
  /\ batch = << >>
  /\ str = Null
  /\ out = Null
  /\ prev = Null
  /\ strA = Null
  /\ SimIdle
  /\ EvalIdle
  /\ AuxIdle
  /\ pc = "start"

\* One streaming track against the local collections of the pool
Init ==
  \E locals \in ListsOf(LocalPool, MaxLocal) :
    \E spotifys \in ListsOf(StreamPool, 1) :
      Len(spotifys) = 1 /\ InitWith(locals, spotifys)

\* Batches of streaming tracks
InitBatch ==
  \E locals \in ListsOf(BatchLocalPool, MaxLocal) :
    \E spotifys \in ListsOf(BatchStreamPool, MaxStream) :
      InitWith(locals, spotifys)

\* Every shape of track against every shape of track
InitShape ==
  \E locals \in ListsOf(ShapePool, 1) :
    \E spotifys \in ListsOf(ShapePool, 1) :
      Len(spotifys) = 1 /\ InitWith(locals, spotifys)

\* A streaming track titled with a version suffix against the local track
\* titled without it
InitVersion ==
  \E T \in VersionTitles, V \in VersionDescriptors, B \in Brackets,
     a \in { AY, ATheY } :
    InitWith(<< [ id |-> 1, title |-> T, artist |-> AY,
                  primary_artist |-> Null ] >>,
             << [ id |-> 1, title |-> WithVersion(T, V, B), artist |-> a,
                  primary_artist |-> Null ] >>)

\* A streaming track by "The X" against a local track by "X", alone or
\* after a track of another artist
InitArtist ==
  \E X \in ArtistNames, tp \in TitlePairs,
     others \in { << >>, << Shape(TSong, AZ, Null) >> } :
    \E locals \in ListsOf({ Shape(tp[2], X, Null) } \cup Range(others), 2) :
      /\ Len(locals) = Len(others) + 1
      /\ locals[Len(locals)].artist = X
      /\ \A k \in 1..Len(others) : locals[k].artist = AZ
      /\ InitWith(locals,
                  << [ id |-> 1, title |-> tp[1], artist |-> WithThe(X),
                       primary_artist |-> Null ] >>)

\* One streaming track against local tracks that satisfy the same tier
InitOrder ==
  \E locals \in ListsOf(OrderLocalPool, MaxLocal) :
    \E spotifys \in ListsOf(OrderStreamPool, 1) :
      Len(spotifys) = 1 /\ InitWith(locals, spotifys)

\* A local track with an artist prefix in its title, and its twin without
InitPrefix ==
  \E locals \in PrefixPairs :
    \E spotifys \in ListsOf(BatchStreamPool, 1) :
      Len(spotifys) = 1 /\ InitWith(locals, spotifys)

\* The rows the live service fetches
InitLive ==
  \E locals \in ListsOf(LiveLocalPool, MaxLocal) :
    \E spotifys \in ListsOf(LiveStreamPool, MaxStream) :
      InitWith(locals, spotifys)

\* The inputs of normalize
InitNorm ==
  /\ localTracks = << >>
  /\ spotifyTracks = << >>
  /\ localIndex = NoIndex
  /\ results = << >>
  /\ batch = << >>
  /\ str \in NormInputs
  /\ out = Null
  /\ prev = Null
  /\ strA = Null
  /\ SimIdle
  /\ EvalIdle
  /\ AuxIdle
  /\ pc = "input"

\* Texts followed by a featured-artist clause
InitClause ==
  /\ localTracks = << >>
  /\ spotifyTracks = << >>
  /\ localIndex = NoIndex
  /\ results = << >>
  /\ batch = << >>
  /\ strA \in ClauseTexts
  /\ \E ws \in { << " " >>, << " ", " " >> }, kw \in ClauseKeywords,
        B \in ClauseTails :
       str = WithClause(strA, ws, kw, B)
  /\ out = Null
  /\ prev = Null
  /\ SimIdle
  /\ EvalIdle
  /\ AuxIdle
  /\ pc = "input"

\* Texts followed by a space and a URL token
InitUrl ==
  /\ localTracks = << >>
  /\ spotifyTracks = << >>
  /\ localIndex = NoIndex
  /\ results = << >>
  /\ batch = << >>
  /\ strA \in NormInputs \ { Null }
  /\ \E token \in UrlTokens : str = WithUrl(strA, token)
  /\ out = Null
  /\ prev = Null
  /\ SimIdle
  /\ EvalIdle
  /\ AuxIdle
  /\ pc = "input"

\* The pairs of strings of at most MaxStrLen characters
InitSim ==
  /\ localTracks = << >>
  /\ spotifyTracks = << >>
  /\ localIndex = NoIndex
  /\ results = << >>
  /\ batch = << >>
  /\ str = Null
  /\ out = Null
  /\ prev = Null
  /\ strA = Null
  /\ str1 \in SimStrings
  /\ str2 \in SimStrings
  /\ distance = << >>
  /\ similarity = << >>
  /\ EvalIdle
  /\ AuxIdle
  /\ pc = "pair"

\* The hook with or without a user and a callback
InitScan ==
  /\ localTracks = << >>
  /\ spotifyTracks = << >>
  /\ localIndex = NoIndex
  /\ results = << >>
  /\ batch = << >>
  /\ str = Null
  /\ out = Null
  /\ prev = Null
  /\ strA = Null
  /\ SimIdle
  /\ EvalIdle
  /\ missingTracks = << >>
  /\ user \in BOOLEAN
  /\ onScanComplete \in BOOLEAN
  /\ ScanStart
  /\ pc = "scan"

\* The raw exports of the pool
InitEval ==
  /\ localTracks = << >>
  /\ spotifyTracks = << >>
  /\ localIndex = NoIndex
  /\ results = << >>
  /\ batch = << >>
  /\ str = Null
  /\ out = Null
  /\ prev = Null
  /\ strA = Null
  /\ SimIdle
  /\ rawExport \in RawExports
  /\ fixture = << >>
  /\ evalResults = << >>
  /\ metrics = << >>
  /\ passed = << >>
  /\ AuxIdle
  /\ pc = "raw"

(***************************************************************************)
(* Operations                                                              *)
(***************************************************************************)
\* const localIndex = buildLocalIndex(localTracks)
BuildLocalIndex ==
  /\ pc = "start"
  /\ IF buildLocalIndexThrows(localTracks)
       THEN pc' = "threw" /\ UNCHANGED localIndex
       ELSE pc' = "indexed" /\ localIndex' = buildLocalIndex(localTracks)
  /\ UNCHANGED << localTracks, spotifyTracks, results, batch, str, out, prev >>
  /\ UNCHANGED << strA, simVars, evalVars, auxVars >>

\* matchTrack(spotifyTracks[i], localIndex), for any track, any number of
\* times, in any order
MatchTrack(i) ==
  /\ pc = "indexed"
  /\ results' = [results EXCEPT
                   ![i] = << matchTrack(spotifyTracks[i], localIndex) >>]
  /\ localIndex' = IndexAfterMatch(spotifyTracks[i], localIndex)
  /\ UNCHANGED << localTracks, spotifyTracks, batch, str, out, prev, pc >>
  /\ UNCHANGED << strA, simVars, evalVars, auxVars >>

\* findMissingTracksPure(spotifyTracks, localTracks)
FindMissingTracksPure ==
  /\ pc = "start"
  /\ IF buildLocalIndexThrows(localTracks)
       THEN pc' = "threw" /\ UNCHANGED batch
       ELSE /\ pc' = "batch"
            /\ batch' = findMissingTracksPure(spotifyTracks, localTracks)
  /\ UNCHANGED << localTracks, spotifyTracks, localIndex, results,
                  str, out, prev >>
  /\ UNCHANGED << strA, simVars, evalVars, auxVars >>

\* normalize(str)
Normalize ==
  /\ pc = "input"
  /\ prev' = str
  /\ out' = normalize(str)
  /\ pc' = "once"
  /\ UNCHANGED << localTracks, spotifyTracks, localIndex, results, batch, str >>
  /\ UNCHANGED << strA, simVars, evalVars, auxVars >>

\* normalize applied to the string it returned
NormalizeAgain ==
  /\ pc = "once"
  /\ prev' = out
  /\ out' = normalize(out)
  /\ pc' = "twice"
  /\ UNCHANGED << localTracks, spotifyTracks, localIndex, results, batch, str >>
  /\ UNCHANGED << strA, simVars, evalVars, auxVars >>

\* levenshteinDistance(str1, str2)
LevenshteinDistance ==
  /\ pc = "pair"
  /\ distance = << >>
  /\ distance' = << levenshteinDistance(str1, str2) >>
  /\ UNCHANGED << localTracks, spotifyTracks, localIndex, results, batch,
                  str, out, prev, strA, str1, str2, similarity, evalVars, auxVars,
                  pc >>

\* calculateSimilarity(str1, str2)
CalculateSimilarity ==
  /\ pc = "pair"
  /\ similarity = << >>
  /\ similarity' = << calculateSimilarity(str1, str2) >>
  /\ UNCHANGED << localTracks, spotifyTracks, localIndex, results, batch,
                  str, out, prev, strA, str1, str2, distance, evalVars, auxVars,
                  pc >>

\* format-eval-export: the fixture written from the raw export
FormatEvalExport ==
  /\ pc = "raw"
  /\ fixture' = formatEvalExport(rawExport)
  /\ pc' = "fixture"
  /\ UNCHANGED << localTracks, spotifyTracks, localIndex, results, batch,
                  str, out, prev, strA, simVars,
                  rawExport, evalResults, metrics, passed, auxVars >>

\* csv-to-eval: the rows of an edited CSV merged into the fixture
CsvToEval(csvRows) ==
  /\ pc = "fixture"
  /\ fixture' = csvToEval(fixture, csvRows)
  /\ UNCHANGED << localTracks, spotifyTracks, localIndex, results, batch,
                  str, out, prev, strA, simVars,
                  rawExport, evalResults, metrics, passed, auxVars, pc >>

\* The metrics report of the harness on the fixture
MetricsReport ==
  /\ pc = "fixture"
  /\ localTracks' = AllLocalTracks(fixture)
  /\ localIndex' = buildLocalIndex(AllLocalTracks(fixture))
  /\ evalResults' = EvalResultsOf(fixture, localIndex')
  /\ metrics' = << computeMetrics(fixture, evalResults') >>
  /\ passed' = << ReportPasses(metrics'[1]) >>
  /\ pc' = "reported"
  /\ UNCHANGED << spotifyTracks, results, batch, str, out, prev, strA,
                  simVars, rawExport, fixture, auxVars >>

\* TrackMatchingService.findMissingTracks on the same rows
FindMissingTracks ==
  /\ pc \in { "start", "indexed", "batch" }
  /\ missingTracks = << >>
  /\ IF buildLocalIndexThrows(localTracks)
       THEN pc' = "threw" /\ UNCHANGED missingTracks
       ELSE /\ missingTracks' = << findMissingTracks(localTracks, spotifyTracks) >>
            /\ UNCHANGED pc
  /\ UNCHANGED << localTracks, spotifyTracks, localIndex, results, batch,
                  str, out, prev, strA, simVars, evalVars, scanVars >>

\* scanLocalFiles up to its first await: without a user it returns
ScanLocalFiles ==
  /\ scanPc = "idle"
  /\ IF ~user
       THEN scanPc' = "done" /\ UNCHANGED isScanning
       ELSE isScanning' = TRUE /\ scanPc' = "listing"
  /\ UNCHANGED << user, onScanComplete, localFiles, offset, attempt, success,
                  upsertLog, completeCalls, matchingVars >>

\* scanDirectoryForLocalFiles, the warmup query, whose failure is
\* swallowed, and the import of the normalizer; the scan or the import
\* may throw
ScanDirectory ==
  /\ scanPc = "listing"
  /\ \/ /\ \E n \in FileCounts : localFiles' = n
        /\ offset' = 0
        /\ scanPc' = "loop"
     \/ /\ scanPc' = "caught"
        /\ UNCHANGED << localFiles, offset >>
  /\ UNCHANGED << user, onScanComplete, isScanning, attempt, success,
                  upsertLog, completeCalls, matchingVars >>

\* The head of the batch loop, extractMetadataBatch, which may throw, and
\* the start of the retry loop
NextBatch ==
  /\ scanPc = "loop"
  /\ IF offset < localFiles
       THEN \/ /\ attempt' = 0
               /\ success' = FALSE
               /\ scanPc' = "retry"
            \/ /\ scanPc' = "caught"
               /\ UNCHANGED << attempt, success >>
       ELSE /\ scanPc' = "complete"
            /\ UNCHANGED << attempt, success >>
  /\ UNCHANGED << user, onScanComplete, isScanning, localFiles, offset,
                  upsertLog, completeCalls, matchingVars >>

\* One round of the retry loop: on a retry the wait and getSession, which
\* may throw before the upsert is made, then the upsert, which succeeds,
\* returns an error or times out
UpsertAttempt ==
  /\ scanPc = "retry"
  /\ IF MoreAttempts(attempt)
       THEN \/ /\ attempt > 0
               /\ attempt' = attempt + 1
               /\ UNCHANGED << success, upsertLog, scanPc >>
            \/ \E ok \in BOOLEAN :
                 /\ upsertLog' = Append(upsertLog,
                                        [ batch   |-> BatchNumber(offset),
                                          attempt |-> attempt,
                                          ok      |-> ok ])
                 /\ IF ok
                      THEN /\ success' = TRUE
                           /\ scanPc' = "afterRetries"
                           /\ UNCHANGED attempt
                      ELSE /\ attempt' = attempt + 1
                           /\ UNCHANGED << success, scanPc >>
       ELSE /\ scanPc' = "afterRetries"
            /\ UNCHANGED << attempt, success, upsertLog >>
  /\ UNCHANGED << user, onScanComplete, isScanning, localFiles, offset,
                  completeCalls, matchingVars >>

\* if (!success) throw lastError; else the next batch after the delay
AfterRetries ==
  /\ scanPc = "afterRetries"
  /\ IF ~success
       THEN scanPc' = "caught" /\ UNCHANGED offset
       ELSE offset' = offset + BATCH_SIZE /\ scanPc' = "loop"
  /\ UNCHANGED << user, onScanComplete, isScanning, localFiles, attempt,
                  success, upsertLog, completeCalls, matchingVars >>

\* The end of the try block: the toast and the callback
ScanComplete ==
  /\ scanPc = "complete"
  /\ completeCalls' = IF onScanComplete THEN completeCalls + 1
                                        ELSE completeCalls
  /\ scanPc' = "finally"
  /\ UNCHANGED << user, onScanComplete, isScanning, localFiles, offset, attempt,
                  success, upsertLog, matchingVars >>

\* The catch block: the toast
ScanFailed ==
  /\ scanPc = "caught"
  /\ scanPc' = "finally"
  /\ UNCHANGED << user, onScanComplete, isScanning, localFiles, offset, attempt,
                  success, upsertLog, completeCalls, matchingVars >>

\* The finally block
ScanFinally ==
  /\ scanPc = "finally"
  /\ isScanning' = FALSE
  /\ scanPc' = "done"
  /\ UNCHANGED << user, onScanComplete, localFiles, offset, attempt, success,
                  upsertLog, completeCalls, matchingVars >>

Next ==
  \/ BuildLocalIndex
  \/ \E i \in DOMAIN spotifyTracks : MatchTrack(i)
  \/ FindMissingTracksPure

NextNorm ==
  \/ Normalize
  \/ NormalizeAgain

Spec == Init /\ [][Next]_vars

SpecBatch == InitBatch /\ [][Next]_vars

SpecShape == InitShape /\ [][Next]_vars

SpecVersion == InitVersion /\ [][Next]_vars

SpecArtist == InitArtist /\ [][Next]_vars

SpecOrder == InitOrder /\ [][Next]_vars

SpecNorm == InitNorm /\ [][NextNorm]_vars

SpecClause == InitClause /\ [][NextNorm]_vars

SpecPrefix == InitPrefix /\ [][Next]_vars

SpecUrl == InitUrl /\ [][NextNorm]_vars

NextSim ==
  \/ LevenshteinDistance
  \/ CalculateSimilarity

SpecSim == InitSim /\ [][NextSim]_vars

NextLive ==
  \/ Next
  \/ FindMissingTracks

SpecLive == InitLive /\ [][NextLive]_vars

NextEval ==
  \/ FormatEvalExport
  \/ \E csvRows \in CsvFiles : CsvToEval(csvRows)
  \/ MetricsReport

SpecEval == InitEval /\ [][NextEval]_vars

NextScan ==
  \/ ScanLocalFiles
  \/ ScanDirectory
  \/ NextBatch
  \/ UpsertAttempt
  \/ AfterRetries
  \/ ScanComplete
  \/ ScanFailed
  \/ ScanFinally

\* The throw, the catch block and the finally block run without an await
SpecScan ==
  /\ InitScan
  /\ [][NextScan]_vars
  /\ WF_vars(AfterRetries)
  /\ WF_vars(ScanFailed)
  /\ WF_vars(ScanFinally)

(***************************************************************************)
(* Properties                                                              *)
(***************************************************************************)
\* The normalized effective artist of a track
ArtistOf(track) == normalizeArtist(EffectiveArtist(track))

\* The streaming track's keys, as matchTrack builds them
ExactKeyOfStream(st) == Key(normalize(st.title), ArtistOf(st))

CoreKeyOfStream(st) == Key(extractCoreTitle(st.title), ArtistOf(st))

\* The matchTrack calls made so far
Called == { i \in DOMAIN results : results[i] # << >> }

\* The MatchResult of the call for spotifyTracks[i]
ResultOf(i) == results[i][1]

\* The records of the index
Records == { localIndex.normalized[k] : k \in DOMAIN localIndex.normalized }

\* C1: normalize is idempotent: normalize applied to a string normalize
\* returned gives that string back.
C1_NormalizeIdempotent == pc = "twice" => out = prev

\* The condition of each tier, for the streaming track st and the index
Tier1Holds(st) == ExactKeyOfStream(st) \in localIndex.exactSet

Tier2Holds(st) == CoreKeyOfStream(st) \in localIndex.coreSet

Tier2bHolds(st) ==
  \E rec \in Records :
    CrossHit(rec, normalize(st.title), extractCoreTitle(st.title), ArtistOf(st))

Tier3Holds(st) ==
  \E rec \in Records :
    FuzzyHit(rec, normalize(st.title), extractCoreTitle(st.title), ArtistOf(st))

\* C2: matchTrack is a strict cascade tier 1, tier 2, tier 2b, tier 3: the
\* result carries the verdict of the first tier whose condition holds, and
\* it is unmatched with tier none exactly when no tier's condition holds.
C2_StrictCascade ==
  \A i \in Called :
    LET r  == ResultOf(i)
        st == spotifyTracks[i]
        t1 == Tier1Holds(st)
        t2 == Tier2Holds(st)
        tb == Tier2bHolds(st)
        t3 == Tier3Holds(st)
    IN  /\ t1 => r.matched /\ r.tier = 1 /\ r.matchedLocalTrack = NoTrack
        /\ ~t1 /\ t2 =>
             r.matched /\ r.tier = 2 /\ r.matchedLocalTrack = NoTrack
        /\ ~t1 /\ ~t2 /\ tb =>
             r.matched /\ r.tier = 2 /\ r.matchedLocalTrack # NoTrack
        /\ ~t1 /\ ~t2 /\ ~tb /\ t3 => r.matched /\ r.tier = 3
        /\ (~t1 /\ ~t2 /\ ~tb /\ ~t3) <=> (~r.matched /\ r.tier = TierNone)

\* A call where tier 1 fails and tiers 2, 2b and 3 all hold: tier 2 answers
C2_Witness ==
  \E i \in Called :
    /\ ~Tier1Holds(spotifyTracks[i])
    /\ Tier2Holds(spotifyTracks[i])
    /\ Tier2bHolds(spotifyTracks[i])
    /\ Tier3Holds(spotifyTracks[i])
    /\ ResultOf(i).tier = 2
    /\ ResultOf(i).matchedLocalTrack = NoTrack

\* C3: a result that identifies a local track (every tier-3 result, every
\* cross-tier tier-2 result) identifies a track of the collection whose
\* normalized effective artist equals the streaming track's.
C3_ArtistGate ==
  \A i \in Called :
    LET r == ResultOf(i)
    IN  /\ r.tier = 3 => r.matchedLocalTrack # NoTrack
        /\ r.matchedLocalTrack # NoTrack =>
             /\ r.tier \in { 2, 3 }
             /\ \E k \in DOMAIN localTracks : localTracks[k] = r.matchedLocalTrack
             /\ ArtistOf(r.matchedLocalTrack) = ArtistOf(spotifyTracks[i])

\* A fuzzy match that passed over an earlier local track with as close a
\* title and another artist
C3_Witness ==
  \E i \in Called :
    /\ ResultOf(i).tier = 3
    /\ ResultOf(i).matchedLocalTrack.id = 2
    /\ localTracks[1].title = localTracks[2].title
    /\ ArtistOf(localTracks[1]) # ArtistOf(spotifyTracks[i])

\* C4: a streaming track is unmatched, with tier none, against a local
\* collection in which no track has its normalized effective artist.
C4_NoSameArtistUnmatched ==
  \A i \in Called :
    (\A k \in DOMAIN localTracks :
       ArtistOf(localTracks[k]) # ArtistOf(spotifyTracks[i]))
      => ~ResultOf(i).matched /\ ResultOf(i).tier = TierNone

\* C5: a streaming track and a local track that match at tier 1 (equal
\* exact keys) also have equal core keys.
C5_TierMonotonicity ==
  \A i \in Called :
    \A rec \in Records :
      (/\ ResultOf(i).tier = 1
       /\ ExactKeyOfStream(spotifyTracks[i]) = Key(rec.title, rec.artist))
        => CoreKeyOfStream(spotifyTracks[i]) = Key(rec.coreTitle, rec.artist)

\* C6: a streaming track whose title or artist is absent (null or empty) is
\* unmatched against every index.
C6_AbsentFieldsUnmatched ==
  \A i \in Called :
    (Falsy(spotifyTracks[i].title) \/ Falsy(EffectiveArtist(spotifyTracks[i])))
      => ~ResultOf(i).matched

\* A value a function returned normally: a string
IsString(s) == s # Null /\ s # TypeError

\* The title, artist and primary_artist fields of the tracks of the run
FieldsOfRun ==
  UNION { { tr.title, tr.artist, tr.primary_artist } :
          tr \in Range(localTracks) \cup Range(spotifyTracks) }

\* C7: normalize, normalizeArtist, extractCoreTitle, buildLocalIndex and
\* matchTrack return normally for every combination of null, empty and
\* non-empty title, artist and primary_artist, and normalize of an absent
\* or empty input is the empty string.
C7_EngineTotal ==
  /\ pc # "threw"
  /\ \A f \in FieldsOfRun :
       /\ IsString(normalize(f))
       /\ IsString(normalizeArtist(f))
       /\ IsString(extractCoreTitle(f))
       /\ Falsy(f) => normalize(f) = << >>
  /\ \A rec \in Records :
       IsString(rec.title) /\ IsString(rec.coreTitle) /\ IsString(rec.artist)
  /\ \A key \in localIndex.exactSet \cup localIndex.coreSet : IsString(key)
  /\ pc = "indexed" => Len(localIndex.normalized) = Len(localTracks)
  /\ \A i \in Called :
       /\ IsString(ResultOf(i).normalizedSpotifyTitle)
       /\ IsString(ResultOf(i).normalizedSpotifyArtist)
       /\ ResultOf(i).matched \in BOOLEAN
  /\ pc = "batch" => Len(batch) = Len(spotifyTracks)

\* A null title and a null artist on both sides, indexed and matched
C7_Witness ==
  /\ pc = "indexed"
  /\ Len(localTracks) = 1
  /\ localTracks[1].title = Null /\ localTracks[1].artist = Null
  /\ localTracks[1].primary_artist = << "a" >>
  /\ 1 \in Called
  /\ spotifyTracks[1].title = Null /\ spotifyTracks[1].artist = Null
  /\ ResultOf(1).normalizedSpotifyTitle = << >>

\* C8: findMissingTracksPure returns one MatchResult per streaming track,
\* in input order and without deduplication, and result i is
\* matchTrack(spotifyTracks[i], I) for the one index I built from the local
\* tracks.
C8_BatchOnePerTrack ==
  pc = "batch" =>
    /\ Len(batch) = Len(spotifyTracks)
    /\ \A i \in DOMAIN spotifyTracks :
         /\ i \in DOMAIN batch
         /\ batch[i].spotifyTrack = spotifyTracks[i]
         /\ batch[i] = matchTrack(spotifyTracks[i], buildLocalIndex(localTracks))

\* A batch of two streaming tracks with the same title and artist, one
\* result for each
C8_Witness ==
  /\ pc = "batch"
  /\ Len(spotifyTracks) = 2
  /\ spotifyTracks[1].title = spotifyTracks[2].title
  /\ spotifyTracks[1].artist = spotifyTracks[2].artist
  /\ Len(batch) = 2
  /\ batch[1].spotifyTrack.id = 1 /\ batch[2].spotifyTrack.id = 2
  /\ batch[1].matched /\ batch[2].matched

\* C9: the index holds one record per local track, in input order, each
\* referencing its own track; exactSet is exactly the set of the records'
\* title_artist keys and coreSet exactly the set of their coreTitle_artist
\* keys.
C9_LocalIndexInvariant ==
  pc = "indexed" =>
    /\ Len(localIndex.normalized) = Len(localTracks)
    /\ \A k \in DOMAIN localTracks : localIndex.normalized[k].track = localTracks[k]
    /\ localIndex.exactSet = { Key(rec.title, rec.artist) : rec \in Records }
    /\ localIndex.coreSet = { Key(rec.coreTitle, rec.artist) : rec \in Records }

\* Two local tracks with different titles whose keys collide
C9_Witness ==
  /\ pc = "indexed"
  /\ Len(localTracks) = 2
  /\ localTracks[1].title # localTracks[2].title
  /\ Len(localIndex.normalized) = 2
  /\ Cardinality(localIndex.exactSet) = 1
  /\ Cardinality(localIndex.coreSet) = 1

OneEdit(s) ==
  { Take(s, i - 1) \o << c >> \o Drop(s, i - 1) :
      i \in 1..(Len(s) + 1), c \in SimAlphabet }
    \cup { Take(s, i - 1) \o Drop(s, i) : i \in 1..Len(s) }
    \cup { [s EXCEPT ![i] = c] : i \in 1..Len(s), c \in SimAlphabet }

\* The least number of edits after which b is among the strings reached
RECURSIVE EditSearch(_, _, _)
EditSearch(reached, b, k) ==
  IF b \in reached THEN k
  ELSE Let1(reached \cup UNION { OneEdit(s) : s \in reached }, LAMBDA next :
         EditSearch(next, b, k + 1))

\* The reference edit distance: the length of a shortest sequence of
\* insertions, deletions and substitutions that turns a into b
EditDistance(a, b) == EditSearch({ a }, b, 0)

\* C11: calculateSimilarity(a, b) lies in [0, 100], is 100 when a equals b
\* (also when both are empty), and is 100 * (maxLen - distance) / maxLen
\* otherwise, with maxLen the greater length and distance the edit distance.
C11_SimilarityBounds ==
  similarity # << >> =>
    LET sim    == similarity[1]
        maxLen == Max2(Len(str1), Len(str2))
    IN  /\ sim.den > 0
        /\ 0 <= sim.num
        /\ sim.num <= 100 * sim.den
        /\ str1 = str2 => sim.num = 100 * sim.den
        /\ str1 # str2 =>
             sim.num * maxLen
               = 100 * (maxLen - EditDistance(str1, str2)) * sim.den

\* Two strings of different lengths with a similarity strictly between 0
\* and 100
C11_Witness ==
  /\ similarity # << >>
  /\ str1 # << >> /\ str2 # << >>
  /\ Len(str1) # Len(str2)
  /\ 0 < similarity[1].num
  /\ similarity[1].num < 100 * similarity[1].den

\* C12: levenshteinDistance(a, b) is the reference edit distance of a and b,
\* for all strings over the alphabet up to the length bound, the empty
\* string included.
C12_LevenshteinIsEditDistance ==
  distance # << >> => distance[1] = EditDistance(str1, str2)

\* A pair that needs both a change of length and a substitution
C12_Witness ==
  /\ distance = << 2 >>
  /\ str1 # << >> /\ str2 # << >>
  /\ Len(str1) = Len(str2) + 1

\* C13: a streaming track titled "<T> (<V>)" or "<T> [<V>]", V a version
\* descriptor and T without a version keyword, against a local track titled
\* "<T>" with the same normalized artist: the core title of the streaming
\* title is normalize(T) and the match is at tier 2.
C13_VersionSuffixTier2 ==
  \A i \in Called, k \in DOMAIN localTracks :
    \A V \in VersionDescriptors, B \in Brackets :
      (/\ localTracks[k].title # Null
       /\ spotifyTracks[i].title = WithVersion(localTracks[k].title, V, B)
       /\ ~HasVersionKeyword(localTracks[k].title)
       /\ ArtistOf(localTracks[k]) = ArtistOf(spotifyTracks[i]))
        => /\ extractCoreTitle(spotifyTracks[i].title)
                = normalize(localTracks[k].title)
           /\ ResultOf(i).matched
           /\ ResultOf(i).tier = 2

\* The text holds feat, ft or featuring, in any letter case
HasClauseKeyword(s) ==
  \E i \in DOMAIN s :
    \/ MatchAtCI(s, i, << "f","e","a","t" >>)
    \/ MatchAtCI(s, i, << "f","t" >>)

\* C14: for a non-empty text A without a feat, ft or featuring keyword,
\* normalize of A followed by whitespace, the keyword (feat, feat., ft, ft.
\* or featuring, in any case), whitespace and any text B is normalize(A): the
\* whole clause is dropped.
C14_FeatClauseDropped ==
  (pc = "once" /\ strA # Null /\ strA # << >> /\ ~HasClauseKeyword(strA))
    => out = normalize(strA)

\* normalize(a) with one leading "the " removed, if it starts with it
WithoutThe(a) ==
  IF startsWith(normalize(a), The) THEN Drop(normalize(a), 4) ELSE normalize(a)

\* The titles are equal up to punctuation and case
EqualUpToPunctuation(t1, t2) ==
  toLowerCase(StripPunctuation(t1)) = toLowerCase(StripPunctuation(t2))

\* C15: normalizeArtist(a) is normalize(a) without one leading "the ", and
\* a streaming track by "The X" matches a local track by "X" at tier 1 when
\* their titles are equal up to punctuation and case.
C15_TheArtistTier1 ==
  \A i \in Called, k \in DOMAIN localTracks :
    (/\ localTracks[k].title # Null /\ localTracks[k].artist # Null
     /\ localTracks[k].artist # << >>
     /\ localTracks[k].primary_artist = Null
     /\ spotifyTracks[i].primary_artist = Null
     /\ spotifyTracks[i].artist = WithThe(localTracks[k].artist)
     /\ EqualUpToPunctuation(spotifyTracks[i].title, localTracks[k].title))
      => /\ normalizeArtist(spotifyTracks[i].artist)
              = WithoutThe(spotifyTracks[i].artist)
         /\ normalizeArtist(localTracks[k].artist)
              = WithoutThe(localTracks[k].artist)
         /\ ResultOf(i).matched
         /\ ResultOf(i).tier = 1

\* The cases of the fixture of a verdict
CasesOf(verdict) == { i \in DOMAIN fixture : fixture[i].verdict = verdict }

\* The streaming track of case i matches at some tier against the index
\* of the harness
MatchesAtSomeTier(i) ==
  LET st == fixture[i].spotifyTrack
  IN  Tier1Holds(st) \/ Tier2Holds(st) \/ Tier2bHolds(st) \/ Tier3Holds(st)

\* C16: in the metrics report the index is built from the expected local
\* tracks of all cases, every case is matched against that one index, the
\* false-positive count is the number of true-missing cases that match at
\* any tier, and the report passes only if that count is zero.
C16_FalsePositivesFailTheRun ==
  pc = "reported" =>
    /\ { localTracks[k] : k \in DOMAIN localTracks }
         = { fixture[i].expectedLocalMatch : i \in DOMAIN fixture } \ { NoTrack }
    /\ localIndex = buildLocalIndex(localTracks)
    /\ \A i \in DOMAIN fixture :
         evalResults[fixture[i].id] = MatchesAtSomeTier(i)
    /\ metrics[1].falsePositives
         = Cardinality({ i \in CasesOf(TrueMissing) : MatchesAtSomeTier(i) })
    /\ passed[1] => metrics[1].falsePositives = 0

\* A true-missing case matches the expected local track of another case
\* and the report fails
C16_Witness ==
  /\ pc = "reported"
  /\ \E i \in CasesOf(TrueMissing) :
       /\ fixture[i].expectedLocalMatch = NoTrack
       /\ MatchesAtSomeTier(i)
       /\ \E j \in DOMAIN fixture : j # i /\ fixture[j].expectedLocalMatch # NoTrack
  /\ metrics[1].falsePositives > 0
  /\ passed[1] = FALSE

\* C17: the four counts of computeMetrics add up to the number of cases;
\* recall is TN / (TN + FN), the false-negative rate FN / (TN + FN), the
\* two add up to 1 and lie in [0, 1]; without a false-negative-labelled
\* case recall is 1 and the rate 0.
C17_MetricsPartition ==
  pc = "reported" =>
    LET m  == metrics[1]
        r  == m.matchRecall
        f  == m.falseNegativeRate
        tn == m.trueNegatives
        fn == m.falseNegatives
    IN  /\ m.truePositives + m.falsePositives + tn + fn = Len(fixture)
        /\ m.totalCases = Len(fixture)
        /\ m.truePositives
             = Cardinality({ i \in CasesOf(TrueMissing) : ~evalResults[fixture[i].id] })
        /\ m.falsePositives
             = Cardinality({ i \in CasesOf(TrueMissing) : evalResults[fixture[i].id] })
        /\ tn = Cardinality({ i \in CasesOf(FalseNegative) : evalResults[fixture[i].id] })
        /\ fn = Cardinality({ i \in CasesOf(FalseNegative) : ~evalResults[fixture[i].id] })
        /\ r.den > 0 /\ f.den > 0
        /\ 0 <= r.num /\ r.num <= r.den
        /\ 0 <= f.num /\ f.num <= f.den
        /\ r.num * f.den + f.num * r.den = r.den * f.den
        /\ tn + fn > 0 => r.num * (tn + fn) = tn * r.den
        /\ tn + fn > 0 => f.num * (tn + fn) = fn * f.den
        /\ tn + fn = 0 => r.num = r.den /\ f.num = 0

\* A report with a true negative and a false negative: recall and rate
\* strictly between 0 and 1
C17_Witness ==
  /\ pc = "reported"
  /\ metrics[1].trueNegatives > 0
  /\ metrics[1].falseNegatives > 0
  /\ metrics[1].matchRecall.num < metrics[1].matchRecall.den

\* C18: in every fixture written by format-eval-export and in every
\* fixture a sequence of csv-to-eval merges makes of it, a true-missing
\* case has no expected local match and a false-negative case has one.
C18_VerdictMatchesExpected ==
  \A i \in DOMAIN fixture :
    /\ fixture[i].verdict = TrueMissing => fixture[i].expectedLocalMatch = NoTrack
    /\ fixture[i].verdict = FalseNegative => fixture[i].expectedLocalMatch # NoTrack

\* The positions of the local records that satisfy the condition of tier 2b
CrossAt(st) ==
  { k \in DOMAIN localIndex.normalized :
      LET rec == localIndex.normalized[k]
      IN  /\ rec.artist = ArtistOf(st)
          /\ \/ normalize(st.title) = rec.coreTitle
             \/ extractCoreTitle(st.title) = rec.title }

\* titleSim and coreSim of the record at position k
TitleSimAt(st, k) ==
  calculateSimilarity(localIndex.normalized[k].title, normalize(st.title))

CoreSimAt(st, k) ==
  calculateSimilarity(localIndex.normalized[k].coreTitle,
                      extractCoreTitle(st.title))

\* The positions of the local records that satisfy the condition of tier 3
FuzzyAt(st) ==
  { k \in DOMAIN localIndex.normalized :
      /\ localIndex.normalized[k].artist = ArtistOf(st)
      /\ \/ TitleSimAt(st, k).num * 100 >= 85 * 100 * TitleSimAt(st, k).den
         \/ CoreSimAt(st, k).num * 100 >= 85 * 100 * CoreSimAt(st, k).den }

\* The fraction a is less than the fraction b
SimLess(a, b) == a.num * b.den < b.num * a.den

\* C19: when the cascade reaches tier 2b and some record satisfies its
\* condition, the local track identified is the first such record in the
\* order of the local track list; when it reaches tier 3, the first record
\* whose titleSim or coreSim is at least 85, whatever later records score.
C19_FirstRecordWins ==
  \A i \in Called :
    LET st == spotifyTracks[i]
        r  == ResultOf(i)
        reached2b == ~Tier1Holds(st) /\ ~Tier2Holds(st)
    IN  /\ (reached2b /\ CrossAt(st) # {}) =>
             /\ r.tier = 2
             /\ \E k \in CrossAt(st) :
                  /\ \A j \in CrossAt(st) : k <= j
                  /\ r.matchedLocalTrack = localTracks[k]
        /\ (reached2b /\ CrossAt(st) = {} /\ FuzzyAt(st) # {}) =>
             /\ r.tier = 3
             /\ \E k \in FuzzyAt(st) :
                  /\ \A j \in FuzzyAt(st) : k <= j
                  /\ r.matchedLocalTrack = localTracks[k]

\* A tier-3 result that identifies the first of two records over the
\* threshold, the second of which scores higher
C19_Witness ==
  \E i \in Called :
    LET st == spotifyTracks[i]
    IN  /\ ResultOf(i).tier = 3
        /\ ResultOf(i).matchedLocalTrack = localTracks[1]
        /\ FuzzyAt(st) = { 1, 2 }
        /\ SimLess(SimMax(TitleSimAt(st, 1), CoreSimAt(st, 1)),
                   SimMax(TitleSimAt(st, 2), CoreSimAt(st, 2)))

\* A tier-2b result that identifies the first of two different records
\* that satisfy the condition
C19_WitnessCross ==
  \E i \in Called :
    /\ ResultOf(i).tier = 2
    /\ ResultOf(i).matchedLocalTrack = localTracks[1]
    /\ CrossAt(spotifyTracks[i]) = { 1, 2 }
    /\ localTracks[1].title # localTracks[2].title

\* The position in the local track list of the track a result identifies
PositionOf(track) == CHOOSE k \in DOMAIN localTracks : localTracks[k] = track

\* The fractions a and b are the same number
SimEqual(a, b) == a.num * b.den = b.num * a.den

\* C20: in every MatchResult tier is none exactly when matched is false;
\* matchedLocalTrack is absent at tier 1 and at tier 2 found through the
\* core-key set, present at tier 2b and tier 3; similarity is present only
\* at tier 3, where it is the larger of titleSim and coreSim of the
\* identified record and lies between 85 and 100.
C20_MatchResultShape ==
  \A i \in Called :
    LET st == spotifyTracks[i]
        r  == ResultOf(i)
    IN  /\ r.matched \in BOOLEAN
        /\ r.tier \in { TierNone, 1, 2, 3 }
        /\ r.tier = TierNone <=> ~r.matched
        /\ r.tier = 1 => r.matchedLocalTrack = NoTrack
        /\ (r.tier = 2 /\ Tier2Holds(st)) => r.matchedLocalTrack = NoTrack
        /\ (r.tier = 2 /\ ~Tier2Holds(st)) =>
             r.matchedLocalTrack \in Range(localTracks)
        /\ r.tier = 3 => r.matchedLocalTrack \in Range(localTracks)
        /\ r.tier = TierNone => r.matchedLocalTrack = NoTrack
        /\ r.similarity # NoSimilarity <=> r.tier = 3
        /\ r.tier = 3 =>
             LET k        == PositionOf(r.matchedLocalTrack)
                 titleSim == TitleSimAt(st, k)
                 coreSim  == CoreSimAt(st, k)
                 sim      == r.similarity
             IN  /\ sim.den > 0
                 /\ ~SimLess(sim, titleSim) /\ ~SimLess(sim, coreSim)
                 /\ SimEqual(sim, titleSim) \/ SimEqual(sim, coreSim)
                 /\ 85 * sim.den <= sim.num /\ sim.num <= 100 * sim.den

\* A tier-3 result whose similarity is coreSim, larger than titleSim and
\* below 100
C20_Witness ==
  \E i \in Called :
    LET st == spotifyTracks[i]
        r  == ResultOf(i)
    IN  /\ r.tier = 3
        /\ r.matchedLocalTrack \in Range(localTracks)
        /\ SimLess(TitleSimAt(st, PositionOf(r.matchedLocalTrack)),
                   CoreSimAt(st, PositionOf(r.matchedLocalTrack)))
        /\ SimEqual(r.similarity, CoreSimAt(st, PositionOf(r.matchedLocalTrack)))
        /\ r.similarity.num < 100 * r.similarity.den

\* The streaming tracks matchTrack leaves unmatched against localIndex built
\* from localTracks, in input order
EngineMissing ==
  Let1(buildLocalIndex(localTracks), LAMBDA index :
    SelectSeq(spotifyTracks, LAMBDA st : ~matchTrack(st, index).matched))

\* C21: the live service reports a streaming track as missing exactly
\* when matchTrack against buildLocalIndex of the local collection returns
\* matched = false, and lists the missing tracks in input order.
C21_LiveAgreesWithEngine ==
  missingTracks # << >> =>
    [k \in DOMAIN missingTracks[1] |-> missingTracks[1][k].spotifyTrack]
      = EngineMissing

\* The local track list without the tracks at the positions outside I
SubList(I) == SelectSeq(localTracks, LAMBDA track : track.id \in I)

\* C22: if a streaming track is matched at tier t against the index of a
\* local collection, it is matched at a tier number not greater than t
\* against the index of every collection obtained by adding tracks.
C22_MonotoneInLocalCollection ==
  \A i \in Called :
    \A I \in SUBSET DOMAIN localTracks :
      Let1(matchTrack(spotifyTracks[i], buildLocalIndex(SubList(I))),
           LAMBDA r :
             r.matched =>
               /\ ResultOf(i).matched
               /\ ResultOf(i).tier <= r.tier)

\* A track matched at tier 3 against the first local track alone and at
\* tier 1 once a second local track is added
C22_Witness ==
  \E i \in Called :
    /\ Len(localTracks) = 2
    /\ localIndex = buildLocalIndex(localTracks)
    /\ matchTrack(spotifyTracks[i], buildLocalIndex(SubList({ 1 }))).tier = 3
    /\ ResultOf(i).tier = 1

\* The orders of the local track list
ListOrders ==
  { f \in [DOMAIN localTracks -> DOMAIN localTracks] :
      \A a, b \in DOMAIN localTracks : f[a] = f[b] => a = b }

Permuted(f) == [k \in DOMAIN localTracks |-> localTracks[f[k]]]

\* C23: the matched flag and the tier of matchTrack are the same for every
\* order of the local track list.
C23_VerdictOrderIndependent ==
  \A i \in Called :
    \A f \in ListOrders :
      Let1(matchTrack(spotifyTracks[i], buildLocalIndex(Permuted(f))),
           LAMBDA r :
             /\ r.matched = ResultOf(i).matched
             /\ r.tier = ResultOf(i).tier)

\* Two orders of a list give the same tier and identify different tracks
C23_Witness ==
  \E i \in Called :
    /\ ResultOf(i).tier = 3
    /\ localIndex = buildLocalIndex(localTracks)
    /\ \E f \in ListOrders :
         Let1(matchTrack(spotifyTracks[i], buildLocalIndex(Permuted(f))),
              LAMBDA r :
                /\ r.tier = 3
                /\ r.matchedLocalTrack # ResultOf(i).matchedLocalTrack
                /\ r.similarity # ResultOf(i).similarity)

\* The positions of the same-artist records whose title is the streaming
\* title or whose core title is the streaming core title
EqualAt(st) ==
  { k \in DOMAIN localIndex.normalized :
      LET rec == localIndex.normalized[k]
      IN  /\ rec.artist = ArtistOf(st)
          /\ \/ rec.title = normalize(st.title)
             \/ rec.coreTitle = extractCoreTitle(st.title) }

\* C24: a same-artist record with the streaming title or the streaming
\* core title makes tier 1 or tier 2 answer, so that a tier-3 result never
\* reports similarity 100: 85 <= similarity < 100.
C24_FuzzyBelowHundred ==
  \A i \in Called :
    LET st == spotifyTracks[i]
        r  == ResultOf(i)
    IN  /\ EqualAt(st) # {} =>
             /\ Tier1Holds(st) \/ Tier2Holds(st)
             /\ r.tier \in { 1, 2 }
             /\ r.similarity = NoSimilarity
        /\ r.tier = 3 =>
             /\ EqualAt(st) = {}
             /\ 85 * r.similarity.den <= r.similarity.num
             /\ r.similarity.num < 100 * r.similarity.den

\* A tier-3 result of similarity below 100 against a list of two local
\* tracks, neither with the streaming title or core title
C24_Witness ==
  \E i \in Called :
    /\ ResultOf(i).tier = 3
    /\ Len(localTracks) = 2
    /\ EqualAt(spotifyTracks[i]) = {}
    /\ 85 * ResultOf(i).similarity.den <= ResultOf(i).similarity.num
    /\ ResultOf(i).similarity.num < 100 * ResultOf(i).similarity.den

\* A tier-2 result found through the core-key set for a record with the
\* streaming core title
C24_WitnessEqualCore ==
  \E i \in Called :
    /\ ResultOf(i).tier = 2
    /\ ~Tier1Holds(spotifyTracks[i])
    /\ EqualAt(spotifyTracks[i]) # {}

\* The word w stands in s after a space and before a space and further
\* text
ClauseLeft(s, w) ==
  \E i \in DOMAIN s :
    /\ s[i] = " "
    /\ MatchAt(s, i + 1, w)
    /\ i + Len(w) + 2 <= Len(s)
    /\ s[i + Len(w) + 1] = " "

\* C25: the string normalize returns has no featured-artist clause: no
\* word feat, ft or featuring after a space and before a space and
\* further text.
C25_NoFeatClauseLeft ==
  pc \in { "once", "twice" } =>
    /\ ~ClauseLeft(out, << "f","e","a","t" >>)
    /\ ~ClauseLeft(out, << "f","t" >>)
    /\ ~ClauseLeft(out, << "f","e","a","t","u","r","i","n","g" >>)

\* C27: for every text A, normalize of A followed by a space and a token
\* www.<non-space> is normalize(A).
C27_UrlTokenContributesNothing ==
  (pc = "once" /\ strA # Null) => out = normalize(strA)

\* C26: a local track titled "<A> - <T>", A being its primary_artist or its
\* artist up to case and outer blanks, is indexed exactly like the same track
\* titled "<T>": one exact key, one core key, equal record strings.
C26_PrefixedLikeTwin ==
  pc = "indexed" =>
    /\ Cardinality(localIndex.exactSet) = 1
    /\ Cardinality(localIndex.coreSet) = 1
    /\ localIndex.normalized[1].title = localIndex.normalized[2].title
    /\ localIndex.normalized[1].coreTitle = localIndex.normalized[2].coreTitle
    /\ localIndex.normalized[1].artist = localIndex.normalized[2].artist

\* The category a case is counted under
CountedUnder(i) ==
  IF fixture[i].failureCategory \in { NoCategory, "" }
    THEN "unknown"
    ELSE fixture[i].failureCategory

\* The false-negative-labelled cases counted under a category
LabelledIn(cat) == { i \in CasesOf(FalseNegative) : CountedUnder(i) = cat }

RECURSIVE SumOfCounts(_, _)
SumOfCounts(byCategory, cats) ==
  IF cats = { } THEN 0
  ELSE LET cat == CHOOSE c \in cats : TRUE
       IN  byCategory[cat].count + SumOfCounts(byCategory, cats \ { cat })

\* C28: the per-category breakdown of computeMetrics holds the
\* false-negative-labelled cases only, grouped by failureCategory with a
\* missing category under "unknown"; matched + unmatched = count for every
\* category, and the counts add up to TN + FN.
C28_BreakdownOfFalseNegatives ==
  pc = "reported" =>
    LET by == metrics[1].byCategory
    IN  /\ DOMAIN by = { CountedUnder(i) : i \in CasesOf(FalseNegative) }
        /\ \A cat \in DOMAIN by :
             /\ by[cat].count = Cardinality(LabelledIn(cat))
             /\ by[cat].matched
                  = Cardinality({ i \in LabelledIn(cat) : evalResults[fixture[i].id] })
             /\ by[cat].matched + by[cat].unmatched = by[cat].count
        /\ SumOfCounts(by, DOMAIN by)
             = metrics[1].trueNegatives + metrics[1].falseNegatives
        /\ \A i \in CasesOf(TrueMissing) :
             CountedUnder(i) \in DOMAIN by => LabelledIn(CountedUnder(i)) # { }

\* A report on two false-negative-labelled cases, one without a category
\* and one tagged, counted under two categories
C28_Witness ==
  /\ pc = "reported"
  /\ \E i, j \in CasesOf(FalseNegative) :
       /\ fixture[i].failureCategory = NoCategory
       /\ fixture[j].failureCategory = "title-mismatch"
  /\ DOMAIN metrics[1].byCategory = { "unknown", "title-mismatch" }
  /\ metrics[1].byCategory["unknown"].count = 1

\* A report with a tagged true-missing case and an empty breakdown
C28_WitnessTrueMissing ==
  /\ pc = "reported"
  /\ \E i \in CasesOf(TrueMissing) : fixture[i].failureCategory = "title-mismatch"
  /\ CasesOf(FalseNegative) = { }
  /\ DOMAIN metrics[1].byCategory = { }

\* C29: csv-to-eval changes only verdict, failureCategory and notes: after
\* any sequence of merges every case has the id, the spotifyTrack and the
\* expectedLocalMatch format-eval-export gave it, and no case is added or
\* removed.
C29_MergeKeepsOtherFields ==
  pc \in { "fixture", "reported" } =>
    Let1(formatEvalExport(rawExport), LAMBDA written :
      /\ Len(fixture) = Len(written)
      /\ \A i \in DOMAIN fixture :
           /\ fixture[i].id = written[i].id
           /\ fixture[i].spotifyTrack = written[i].spotifyTrack
           /\ fixture[i].expectedLocalMatch = written[i].expectedLocalMatch)

\* The upsert calls made for a batch
UpsertsOf(b) == SelectSeq(upsertLog, LAMBDA call : call.batch = b)

\* The retry loop of the current batch has run out without a success
Exhausted == scanPc # "retry" /\ ~MoreAttempts(attempt) /\ ~success

\* The upserts are at most MAX_RETRIES + 1 per batch, a batch is attempted
\* only after the batch before it succeeded, and once a batch has failed
\* all its attempts the scan is on its way out
ScanSafe ==
  /\ \A call \in { upsertLog[k] : k \in DOMAIN upsertLog } :
       Len(UpsertsOf(call.batch)) <= MAX_RETRIES + 1
  /\ \A k \in DOMAIN upsertLog :
       upsertLog[k].batch > 1 =>
         \E j \in 1..(k - 1) :
           upsertLog[j].batch = upsertLog[k].batch - 1 /\ upsertLog[j].ok
  /\ Exhausted =>
       /\ scanPc \in { "afterRetries", "caught", "finally", "done" }
       /\ \A k \in DOMAIN upsertLog : upsertLog[k].batch <= BatchNumber(offset)
       /\ completeCalls = 0
  /\ scanPc = "done" => ~isScanning

\* C30: each batch is upserted at most MAX_RETRIES + 1 = 4 times, batch
\* k+1 only after batch k succeeded, and after a batch has failed all its
\* attempts no later batch is attempted, onScanComplete is not called and
\* isScanning becomes false again.
C30_RetryThenAbort ==
  /\ []ScanSafe
  /\ Exhausted ~> (scanPc = "done" /\ ~isScanning /\ completeCalls = 0)

\* The second batch has failed four upserts after the first succeeded on
\* its last attempt, and the scan has ended
C30_Witness ==
  /\ scanPc = "done"
  /\ Exhausted
  /\ BatchNumber(offset) = 2
  /\ Len(UpsertsOf(1)) = MAX_RETRIES + 1
  /\ Len(UpsertsOf(2)) = MAX_RETRIES + 1
  /\ onScanComplete
  /\ ~isScanning

====
